---------------------------- MODULE Spec2Model ----------------------------
(***************************************************************************)
(* Model of the AI Spine JavaScript SDK: the retrying HTTP request core    *)
(* (AISpineClient.executeWithRetry, handleError, createErrorFromResponse)  *)
(* and the webhook signature utility (WebhookSignature).                   *)
(*                                                                         *)
(* Conventions.  A JavaScript `undefined` is the string "undefined" where  *)
(* the value is a string or an opaque object and UndefinedNum where it is  *)
(* a number.  A message built by a template literal is the tuple of its    *)
(* parts, so that `${resource} not found` differs from resource.  An       *)
(* opaque object (details, validation_errors) is a tuple of strings.       *)
(***************************************************************************)
EXTENDS Integers, Sequences, FiniteSets, TLC

(***************************************************************************)
(* Bounds of the model                                                     *)
(***************************************************************************)
MaxRetries == 5
NumRequests == 2
MaxElements == 3
MaxMutations == 1
MaxAttemptNumber == 12
MaxBatch == 3

(***************************************************************************)
(* Program constants                                                       *)
(***************************************************************************)
UndefinedNum == -1
DefaultRetries == 3
DefaultTimeout == 30000
BackoffBase == 1000
BackoffCap == 10000
ResponseTimeoutDefault == 30000
DefaultTolerance == 300
DigestHexLength == 64

undefined == "undefined"
NoDetails == <<"undefined">>

Requests == 1..NumRequests

\* `x || y` on numbers: 0, NaN and undefined are falsy
OrNum(x, y) == IF x = UndefinedNum \/ x = 0 THEN y ELSE x
\* `x ?? y` on numbers: only undefined (or null) is replaced
NullishNum(x, y) == IF x = UndefinedNum THEN y ELSE x
\* `x || y` on strings: "" and undefined are falsy
OrStr(x, y) == IF x = undefined \/ x = "" THEN y ELSE x

(***************************************************************************)
(* errors: the AISpineError class hierarchy.  One record shape for all     *)
(* classes; a field a class does not declare is undefined.                 *)
(***************************************************************************)
AISpineError(message, code, status, details) ==
  [name |-> "AISpineError", message |-> message, code |-> code,
   status |-> status, details |-> details,
   validationErrors |-> NoDetails, retryAfter |-> UndefinedNum]

AuthenticationError(message, details) ==
  [AISpineError(<<message>>, "AUTHENTICATION_ERROR", 401, details)
     EXCEPT !.name = "AuthenticationError"]

AuthorizationError(message, details) ==
  [AISpineError(<<message>>, "AUTHORIZATION_ERROR", 403, details)
     EXCEPT !.name = "AuthorizationError"]

\* validationErrors defaults to [] when the argument is undefined
ValidationError(message, validationErrors, details) ==
  [AISpineError(<<message>>, "VALIDATION_ERROR", 400, details)
     EXCEPT !.name = "ValidationError",
            !.validationErrors = IF validationErrors = NoDetails
                                 THEN <<>> ELSE validationErrors]

\* called with the resource only: the message is `${resource} not found`
\* and the constructor takes no details
NotFoundError(resource) ==
  [AISpineError(<<resource, " not found">>, "NOT_FOUND", 404, NoDetails)
     EXCEPT !.name = "NotFoundError"]

RateLimitError(message, retryAfter, details) ==
  [AISpineError(<<message>>, "RATE_LIMIT_ERROR", 429, details)
     EXCEPT !.name = "RateLimitError", !.retryAfter = retryAfter]

NetworkError(message, details) ==
  [AISpineError(<<message>>, "NETWORK_ERROR", UndefinedNum, details)
     EXCEPT !.name = "NetworkError"]

TimeoutError(timeout, details) ==
  [AISpineError(<<"Request timed out after ", ToString(timeout), "ms">>,
                "TIMEOUT_ERROR", 408, details)
     EXCEPT !.name = "TimeoutError"]

ServerError(message, status, details) ==
  [AISpineError(<<message>>, "SERVER_ERROR", status, details)
     EXCEPT !.name = "ServerError"]

\* error instanceof AISpineError
AISpineErrorNames ==
  {"AISpineError", "AuthenticationError", "AuthorizationError",
   "ValidationError", "NotFoundError", "RateLimitError", "NetworkError",
   "TimeoutError", "ServerError", "ExecutionError", "AgentError", "FlowError"}

isAISpineError(error) == error.name \in AISpineErrorNames

\* variant: the case for 408 is missing
createErrorFromResponse_No408(status, data, message) ==
  LET errorMessage ==
        OrStr(message, OrStr(data.message, OrStr(data.error, "An error occurred")))
      details == data.details
  IN  CASE status = 400 -> ValidationError(errorMessage, data.validation_errors, details)
        [] status = 401 -> AuthenticationError(errorMessage, details)
        [] status = 403 -> AuthorizationError(errorMessage, details)
        [] status = 404 -> NotFoundError(errorMessage)
        [] status = 429 -> RateLimitError(errorMessage, data.retry_after, details)
        [] status \in {500, 502, 503, 504} -> ServerError(errorMessage, status, details)
        [] OTHER -> AISpineError(<<errorMessage>>, "UNKNOWN_ERROR", status, details)

\* Maps HTTP status codes to error classes.  data is the response body, a
\* record of its optional fields (data?.x of a missing body is undefined).
createErrorFromResponse(status, data, message) ==
  LET errorMessage ==
        OrStr(message, OrStr(data.message, OrStr(data.error, "An error occurred")))
      details == data.details
  IN  CASE status = 400 -> ValidationError(errorMessage, data.validation_errors, details)
        [] status = 401 -> AuthenticationError(errorMessage, details)
        [] status = 403 -> AuthorizationError(errorMessage, details)
        [] status = 404 -> NotFoundError(errorMessage)
        [] status = 408 -> TimeoutError(OrNum(data.timeout, ResponseTimeoutDefault), details)
        [] status = 429 -> RateLimitError(errorMessage, data.retry_after, details)
        [] status \in {500, 502, 503, 504} -> ServerError(errorMessage, status, details)
        [] OTHER -> AISpineError(<<errorMessage>>, "UNKNOWN_ERROR", status, details)


\* The AxiosError seen by the response interceptor: response says whether
\* error.response is set; status and data are those of error.response.
EmptyBody ==
  [message |-> undefined, error |-> undefined, validation_errors |-> NoDetails,
   details |-> NoDetails, retry_after |-> UndefinedNum, timeout |-> UndefinedNum]

NoAxiosError ==
  [response |-> FALSE, status |-> UndefinedNum, data |-> EmptyBody,
   code |-> undefined, message |-> undefined]

\* variant: ETIMEDOUT is not recognised as a timeout
handleError_OnlyAborted(error, cfg) ==
  IF ~error.response
  THEN IF error.code = "ECONNABORTED"
       THEN TimeoutError(cfg.timeout, NoDetails)
       ELSE NetworkError(error.message,
                         <<"code", error.code, "originalError", error.message>>)
  ELSE createErrorFromResponse(error.status, error.data, error.message)

\* Classification of a failed attempt
handleError(error, cfg) ==
  IF ~error.response
  THEN IF error.code = "ECONNABORTED" \/ error.code = "ETIMEDOUT"
       THEN TimeoutError(cfg.timeout, NoDetails)
       ELSE NetworkError(error.message,
                         <<"code", error.code, "originalError", error.message>>)
  ELSE createErrorFromResponse(error.status, error.data, error.message)

(***************************************************************************)
(* client: AISpineClient                                                   *)
(***************************************************************************)
\* this.config after the constructor, for the retries and timeout given
constructor(cfgIn) ==
  [retries |-> OrNum(cfgIn.retries, DefaultRetries),
   timeout |-> OrNum(cfgIn.timeout, DefaultTimeout)]

\* Object.assign(this.config, updates): a field absent from updates is kept
ObjectAssign(cfg, updates) ==
  [retries |-> IF updates.retries = UndefinedNum THEN cfg.retries ELSE updates.retries,
   timeout |-> IF updates.timeout = UndefinedNum THEN cfg.timeout ELSE updates.timeout]

\* const maxRetries = options.retries ?? this.config.retries
\* variant: the limit is the client's, whatever the request's options say
EffectiveRetries_ConfigOnly(optRetries, cfg) == cfg.retries

EffectiveRetries(optRetries, cfg) == NullishNum(optRetries, cfg.retries)

\* the value `let lastError` holds before the first assignment
NoError == [AISpineError(<<>>, undefined, UndefinedNum, NoDetails) EXCEPT !.name = undefined]

\* variant: lastError is assigned by the first failure only
NextLastError_KeepFirst(lastErr, error) ==
  IF lastErr.name # undefined
  THEN lastErr
  ELSE IF isAISpineError(error)
       THEN error
       ELSE AISpineError(<<"Unexpected error">>, "UNKNOWN_ERROR", UndefinedNum,
                         <<"originalError", error.name>>)

\* lastError = error instanceof AISpineError ? error : new AISpineError(...)
NextLastError(lastErr, error) ==
  IF isAISpineError(error)
  THEN error
  ELSE AISpineError(<<"Unexpected error">>, "UNKNOWN_ERROR", UndefinedNum,
                    <<"originalError", error.name>>)

\* variant: 404 is not in the list of statuses that end the loop
IsTerminal_No404(lastErr) ==
  lastErr.status = 400 \/ lastErr.status = 401 \/ lastErr.status = 403

\* "Don't retry on certain errors"
IsTerminal(lastErr) ==
  lastErr.status = 400 \/ lastErr.status = 401 \/ lastErr.status = 403 \/ lastErr.status = 404

\* variant: the last attempt is taken to be one later
IsLastAttempt_OffByOne(att, maxR) == att = maxR + 1

\* "Don't retry on last attempt"
IsLastAttempt(att, maxR) == att = maxR

\* the loop condition of `for (let attempt = 0; attempt <= maxRetries; attempt++)`
LoopCondition(att, maxR) == att <= maxR

Pow2(n) == 2 ^ n
Min(a, b) == IF a < b THEN a ELSE b

\* variant: the delay is not capped
BackoffDelay_NoCap(att) == BackoffBase * Pow2(att)

\* const delay = Math.min(1000 * Math.pow(2, attempt), 10000)
BackoffDelay(att) == Min(BackoffBase * Pow2(att), BackoffCap)

\* the envelope returned on success
NoResponse ==
  [data |-> undefined, status |-> UndefinedNum, statusText |-> undefined,
   headers |-> undefined]

\* variant: the envelope loses the status text
SDKResponse_NoStatusText(response) ==
  [data |-> response.data, status |-> response.status,
   statusText |-> undefined, headers |-> response.headers]

SDKResponse(response) ==
  [data |-> response.data, status |-> response.status,
   statusText |-> response.statusText, headers |-> response.headers]

(***************************************************************************)
(* webhooks: WebhookSignature.  A string is the sequence of its lexemes:   *)
(* the separators ",", "=", ".", single characters, and whole words such   *)
(* as "t", "v1" or a hex digest.                                           *)
(***************************************************************************)
\* crypto.createHmac('sha256', secret).update(signedPayload, 'utf8')
\* .digest('hex'): an ideal keyed hash, distinct inputs give distinct
\* digests; the digest is one lexeme of DigestHexLength hex characters
HmacHex(secret, signedPayload) == ToString(<<secret, signedPayload>>)

\* variant: the payload is left out of what is signed
SignedPayload_NoPayload(timestamp, payload) == timestamp \o <<".">>

\* `${timestamp}.${payload}`
SignedPayload(timestamp, payload) == timestamp \o <<".">> \o payload

\* WebhookSignature.generate(options)
generate(options) ==
  <<"t", "=">> \o options.timestamp \o
  <<",", "v1", "=",
    HmacHex(options.secret, SignedPayload(options.timestamp, options.payload))>>

\* String.prototype.split(sep)
RECURSIVE Split(_, _)
Split(str, sep) ==
  IF \A i \in 1..Len(str) : str[i] # sep
  THEN <<str>>
  ELSE LET i == CHOOSE k \in 1..Len(str) :
                  str[k] = sep /\ \A j \in 1..(k - 1) : str[j] # sep
       IN  <<SubSeq(str, 1, i - 1)>> \o Split(SubSeq(str, i + 1, Len(str)), sep)

\* a value that may be undefined
UndefinedStr == [defined |-> FALSE, str |-> <<>>]
Str(str) == [defined |-> TRUE, str |-> str]

\* the loop over the elements: the last t wins, every v1 is collected
RECURSIVE ParseElements(_, _)
ParseElements(elements, acc) ==
  IF elements = <<>>
  THEN acc
  ELSE LET parts == Split(Head(elements), "=")
           key == parts[1]
           value == IF Len(parts) >= 2 THEN Str(parts[2]) ELSE UndefinedStr
       IN  ParseElements(Tail(elements),
             IF key = <<"t">>
             THEN [acc EXCEPT !.timestamp = value]
             ELSE IF key = <<"v1">>
                  THEN [acc EXCEPT !.signatures = Append(@, value)]
                  ELSE acc)

\* variant: the timestamp starts as "0" instead of undefined
ParseHeader_DefaultZero(receivedSignature) ==
  ParseElements(Split(receivedSignature, ","),
                [timestamp |-> Str(<<"0">>), signatures |-> <<>>])

ParseHeader(receivedSignature) ==
  ParseElements(Split(receivedSignature, ","),
                [timestamp |-> UndefinedStr, signatures |-> <<>>])

\* parseInt(str, 10): leading blanks, a sign, then the longest run of
\* decimal digits; NaN when there is no digit
NaN == [nan |-> TRUE, n |-> 0]
Number(n) == [nan |-> FALSE, n |-> n]
DecimalDigits == {"0", "1", "2", "3", "4", "5", "6", "7", "8", "9"}
DigitValue(c) ==
  CASE c = "0" -> 0 [] c = "1" -> 1 [] c = "2" -> 2 [] c = "3" -> 3 [] c = "4" -> 4
    [] c = "5" -> 5 [] c = "6" -> 6 [] c = "7" -> 7 [] c = "8" -> 8 [] c = "9" -> 9

RECURSIVE SkipBlanks(_)
SkipBlanks(str) ==
  IF str # <<>> /\ Head(str) = " " THEN SkipBlanks(Tail(str)) ELSE str

RECURSIVE ParseDigits(_, _, _)
ParseDigits(str, seen, acc) ==
  IF str # <<>> /\ Head(str) \in DecimalDigits
  THEN ParseDigits(Tail(str), TRUE, 10 * acc + DigitValue(Head(str)))
  ELSE IF seen THEN Number(acc) ELSE NaN

parseInt(str) ==
  LET body == SkipBlanks(str)
      signed == body # <<>> /\ Head(body) \in {"-", "+"}
      magnitude == ParseDigits(IF signed THEN Tail(body) ELSE body, FALSE, 0)
  IN  IF magnitude.nan THEN NaN
      ELSE IF signed /\ Head(body) = "-" THEN Number(0 - magnitude.n)
      ELSE magnitude

\* variant: the tolerance is taken to be in milliseconds
IsStale_ToleranceInMs(timestampMs, now, tolerance) ==
  /\ ~timestampMs.nan
  /\ now - timestampMs.n > tolerance

\* now - timestampMs > tolerance * 1000; a comparison with NaN is false
IsStale(timestampMs, now, tolerance) ==
  /\ ~timestampMs.nan
  /\ now - timestampMs.n > tolerance * 1000

\* the strings of the model
Secrets == {"whsec_1", "whsec_2"}
Payloads == {<<"{a}">>, <<"{b}">>}
T600 == <<"6", "0", "0">>
T900 == <<"9", "0", "0">>
T1400 == <<"1", "4", "0", "0">>
Tabc == <<"a", "b", "c">>
Timestamps == {T600, T900, T1400, Tabc}
\* timestamps a sender generates shortly before and shortly after now
T1000 == <<"1", "0", "0", "0">>
T1200 == <<"1", "2", "0", "0">>
RecentTimestamps == {T1000, T1200}

\* the hex digests that occur, in lower case and in upper case
HexDigests ==
  {HmacHex(secret, SignedPayload(t, payload)) :
     secret \in Secrets, t \in Timestamps \cup RecentTimestamps,
     payload \in Payloads}
UpperHex(digest) == "toUpperCase(" \o digest \o ")"
UpperDigests == {UpperHex(digest) : digest \in HexDigests}
HexCharLexemes == DecimalDigits \cup {"a", "b", "c", "d", "e", "f"}

\* number of hex characters of a lexeme, 0 when it is not hexadecimal
HexChars(lexeme) ==
  IF lexeme \in HexDigests \cup UpperDigests THEN DigestHexLength
  ELSE IF lexeme \in HexCharLexemes THEN 1
  ELSE 0

LowerHex(lexeme) ==
  IF lexeme \in UpperDigests
  THEN CHOOSE digest \in HexDigests : UpperHex(digest) = lexeme
  ELSE lexeme

\* Buffer.from(str, 'hex'): decodes, whatever the case, up to the first
\* character that is not hexadecimal and drops an odd last character
RECURSIVE HexPrefix(_)
HexPrefix(str) ==
  IF str = <<>> \/ HexChars(Head(str)) = 0
  THEN <<>>
  ELSE <<LowerHex(Head(str))>> \o HexPrefix(Tail(str))

RECURSIVE CountHexChars(_)
CountHexChars(str) ==
  IF str = <<>> THEN 0 ELSE HexChars(Head(str)) + CountHexChars(Tail(str))

BufferFromHex(str) ==
  LET prefix == HexPrefix(str)
      chars == CountHexChars(prefix)
  IN  [length |-> chars \div 2,
       bytes |-> IF chars % 2 = 1 THEN SubSeq(prefix, 1, Len(prefix) - 1) ELSE prefix]

NoText == <<"undefined">>
Returned(value) == [threw |-> FALSE, value |-> value, message |-> ""]
Threw(message) == [threw |-> TRUE, value |-> FALSE, message |-> message]

\* crypto.timingSafeEqual(a, b): throws when the lengths differ
timingSafeEqual(a, b) ==
  IF a.length # b.length
  THEN Threw("Input buffers must have the same byte length")
  ELSE Returned(a.bytes = b.bytes)

\* the callback of signatures.some; Buffer.from(undefined, 'hex') throws
CompareSignature(signature, expectedSignature) ==
  IF ~signature.defined
  THEN Threw("The first argument must be of type string. Received undefined")
  ELSE timingSafeEqual(BufferFromHex(signature.str),
                       BufferFromHex(<<expectedSignature>>))

\* Array.prototype.some: in order, stops at the first true or at a throw
RECURSIVE Some(_, _)
Some(signatures, expectedSignature) ==
  IF signatures = <<>>
  THEN Returned(FALSE)
  ELSE LET first == CompareSignature(Head(signatures), expectedSignature)
       IN  IF first.threw \/ first.value
           THEN first
           ELSE Some(Tail(signatures), expectedSignature)

\* variant: the catch block returns { valid: false } without the error
verify_BareCatch(receivedSignature, payload, secret, toleranceArg, now) ==
  LET tolerance == IF toleranceArg = UndefinedNum THEN DefaultTolerance ELSE toleranceArg
      parsed == ParseHeader(receivedSignature)
      timestamp == parsed.timestamp
  IN  IF ~timestamp.defined \/ timestamp.str = <<>>
      THEN [valid |-> FALSE, error |-> <<"Missing timestamp in signature">>]
      ELSE LET seconds == parseInt(timestamp.str)
               timestampMs == IF seconds.nan THEN NaN ELSE Number(seconds.n * 1000)
           IN  IF IsStale(timestampMs, now, tolerance)
               THEN [valid |-> FALSE, error |-> <<"Timestamp outside tolerance window">>]
               ELSE LET expectedSignature ==
                          HmacHex(secret, SignedPayload(timestamp.str, payload))
                        isValid == Some(parsed.signatures, expectedSignature)
                    IN  IF isValid.threw
                        THEN [valid |-> FALSE, error |-> NoText]
                        ELSE [valid |-> isValid.value, error |-> NoText]

\* WebhookSignature.verify(receivedSignature, payload, secret, tolerance),
\* now being the value of Date.now()
verify(receivedSignature, payload, secret, toleranceArg, now) ==
  LET tolerance == IF toleranceArg = UndefinedNum THEN DefaultTolerance ELSE toleranceArg
      parsed == ParseHeader(receivedSignature)
      timestamp == parsed.timestamp
  IN  IF ~timestamp.defined \/ timestamp.str = <<>>
      THEN [valid |-> FALSE, error |-> <<"Missing timestamp in signature">>]
      ELSE LET seconds == parseInt(timestamp.str)
               timestampMs == IF seconds.nan THEN NaN ELSE Number(seconds.n * 1000)
           IN  IF IsStale(timestampMs, now, tolerance)
               THEN [valid |-> FALSE, error |-> <<"Timestamp outside tolerance window">>]
               ELSE LET expectedSignature ==
                          HmacHex(secret, SignedPayload(timestamp.str, payload))
                        isValid == Some(parsed.signatures, expectedSignature)
                    IN  IF isValid.threw
                        THEN [valid |-> FALSE,
                              error |-> <<"Signature verification failed: ",
                                          isValid.message>>]
                        ELSE [valid |-> isValid.value, error |-> NoText]

(***************************************************************************)
(* webhooks: WebhookEventHandler.  The Map of handlers is the sequence of  *)
(* its entries in insertion order, and the Set of an entry the sequence of *)
(* its handlers in insertion order                                         *)
(***************************************************************************)
EventTypes == {"execution.completed", "execution.failed", "*"}
Handlers == {"h1", "h2"}

\* Map.prototype.has, get, set, delete; get answers undefined for no entry
UndefinedSet == [defined |-> FALSE, set |-> <<>>]
MapHas(map, key) == \E i \in 1..Len(map) : map[i].type = key
MapGet(map, key) ==
  IF MapHas(map, key)
  THEN [defined |-> TRUE,
        set |-> map[CHOOSE i \in 1..Len(map) : map[i].type = key].set]
  ELSE UndefinedSet
MapSet(map, key, set) ==
  IF MapHas(map, key)
  THEN [i \in 1..Len(map) |-> IF map[i].type = key THEN [map[i] EXCEPT !.set = set]
                              ELSE map[i]]
  ELSE Append(map, [type |-> key, set |-> set])
MapDelete(map, key) == SelectSeq(map, LAMBDA entry : entry.type # key)

\* Set.prototype.add, delete
SetHas(set, handler) == \E i \in 1..Len(set) : set[i] = handler

\* variant: an Array push instead of a Set add
SetAdd_Push(set, handler) == Append(set, handler)

SetAdd(set, handler) == IF SetHas(set, handler) THEN set ELSE Append(set, handler)
SetDelete(set, handler) == SelectSeq(set, LAMBDA member : member # handler)

\* the Map after on(eventType, handler)
HandlersAfterOn(map, eventType, handler) ==
  LET created == IF ~MapHas(map, eventType) THEN MapSet(map, eventType, <<>>) ELSE map
  IN  MapSet(created, eventType, SetAdd(MapGet(created, eventType).set, handler))

\* variant: the entry of a Set that became empty is kept
HandlersAfterOff_KeepEmpty(map, eventType, handler) ==
  LET handlersOfType == MapGet(map, eventType)
  IN  IF handlersOfType.defined
      THEN MapSet(map, eventType, SetDelete(handlersOfType.set, handler))
      ELSE map

\* the Map after off(eventType, handler)
HandlersAfterOff(map, eventType, handler) ==
  LET handlersOfType == MapGet(map, eventType)
  IN  IF handlersOfType.defined
      THEN LET remaining == SetDelete(handlersOfType.set, handler)
           IN  IF Len(remaining) = 0
               THEN MapDelete(map, eventType)
               ELSE MapSet(map, eventType, remaining)
      ELSE map

\* getRegisteredEvents(): Array.from(this.handlers.keys())
getRegisteredEvents(map) == [i \in 1..Len(map) |-> map[i].type]

\* what a handler does when it is called: it returns (nothing, or a promise
\* already fulfilled), it throws, or it returns a promise still pending
Outcomes == {"returns", "throws", "pending"}
Promise(phase, handler) == [phase |-> phase, handler |-> handler]

\* Array.from(set).map(handler => Promise.resolve(handler(event)).catch(...)):
\* the handlers are called in order; a handler that throws ends the map
RECURSIVE Launch(_, _, _, _)
Launch(set, outcome, phase, acc) ==
  IF set = <<>>
  THEN acc
  ELSE LET handler == Head(set)
           called == [acc EXCEPT !.calls = Append(@, Promise(phase, handler))]
       IN  IF outcome[handler] = "throws"
           THEN [called EXCEPT !.thrown = handler]
           ELSE Launch(Tail(set), outcome, phase,
                       IF outcome[handler] = "pending"
                       THEN [called EXCEPT !.pending = @ \cup {Promise(phase, handler)}]
                       ELSE called)

\* the second half of emit: the handlers of '*', read from the Map now
WildcardPhase(map, outcome, acc) ==
  LET wildcardHandlers == MapGet(map, "*")
  IN  IF wildcardHandlers.defined
      THEN LET launched == Launch(wildcardHandlers.set, outcome, "wildcard", acc)
           IN  [launched EXCEPT
                  !.pc = IF launched.thrown # "none" THEN "rejected" ELSE "wildcard"]
      ELSE [acc EXCEPT !.pc = "resolved"]

\* emit(event) up to its first await, or to its end when nothing is awaited
SpecificPhase(map, eventType, outcome) ==
  LET specificHandlers == MapGet(map, eventType)
      acc == [pc |-> "idle", calls |-> <<>>, pending |-> {}, thrown |-> "none"]
  IN  IF specificHandlers.defined
      THEN LET launched == Launch(specificHandlers.set, outcome, "specific", acc)
           IN  [launched EXCEPT
                  !.pc = IF launched.thrown # "none" THEN "rejected" ELSE "specific"]
      ELSE WildcardPhase(map, outcome, acc)

\* the text console.error is given when the promise of a handler rejects
LogMessage(phase, eventType) ==
  IF phase = "specific"
  THEN <<"Error in webhook handler for ", eventType, ":">>
  ELSE <<"Error in wildcard webhook handler:">>

(***************************************************************************)
(* webhooks: WebhookRetry                                                  *)
(***************************************************************************)
DefaultWebhookRetries == 3
DefaultBaseDelay == 1000
WebhookDelayCap == 30000

\* constructor(maxRetries = 3, baseDelay = 1000)
WebhookRetry(maxRetriesArg, baseDelayArg) ==
  [maxRetries |-> IF maxRetriesArg = UndefinedNum THEN DefaultWebhookRetries
                  ELSE maxRetriesArg,
   baseDelay |-> IF baseDelayArg = UndefinedNum THEN DefaultBaseDelay
                 ELSE baseDelayArg]

\* x * Math.pow(2, exponent); the base delays of the model are even, so
\* that the half of one, for exponent -1, is an integer
TimesPow2(x, exponent) ==
  IF exponent >= 0 THEN x * Pow2(exponent) ELSE x \div Pow2(0 - exponent)

\* variant: the delay is not capped
getRetryDelay_NoCap(retry, attemptNumber) ==
  TimesPow2(retry.baseDelay, attemptNumber - 1)

\* getRetryDelay(attempt)
getRetryDelay(retry, attemptNumber) ==
  Min(TimesPow2(retry.baseDelay, attemptNumber - 1), WebhookDelayCap)

\* variant: one more attempt is allowed
shouldRetry_OneMore(retry, status, attemptNumber) ==
  IF attemptNumber > retry.maxRetries
  THEN FALSE
  ELSE status >= 500 \/ status = 408 \/ status = 429

\* shouldRetry(status, attempt)
shouldRetry(retry, status, attemptNumber) ==
  IF attemptNumber >= retry.maxRetries
  THEN FALSE
  ELSE status >= 500 \/ status = 408 \/ status = 429

(***************************************************************************)
(* client: the configuration object and the defaults of the axios instance *)
(***************************************************************************)
DefaultBaseURL == "https://ai-spine-api.up.railway.app"
DefaultApiKey == "sk_no_auth_required"

\* the fields of AISpineConfig the requests depend on, as the constructor
\* sets them
NewClientConfig(cfgIn) ==
  [apiKey |-> IF cfgIn.apiKey \in {undefined, ""} THEN DefaultApiKey ELSE cfgIn.apiKey,
   baseURL |-> IF cfgIn.baseURL \in {undefined, ""} THEN DefaultBaseURL
               ELSE cfgIn.baseURL,
   timeout |-> OrNum(cfgIn.timeout, DefaultTimeout)]

\* axios.create({baseURL, timeout, headers})
CreateDefaults(cfg) ==
  [baseURL |-> cfg.baseURL, timeout |-> cfg.timeout,
   authorization |-> <<"Bearer ", cfg.apiKey>>]

\* Object.assign(this.config, updates) on these fields; undefined stands
\* for a field that updates does not have
AssignUpdates(cfg, updates) ==
  [apiKey |-> IF updates.apiKey = undefined THEN cfg.apiKey ELSE updates.apiKey,
   baseURL |-> IF updates.baseURL = undefined THEN cfg.baseURL ELSE updates.baseURL,
   timeout |-> IF updates.timeout = UndefinedNum THEN cfg.timeout ELSE updates.timeout]

\* if (updates.baseURL) ..., if (updates.timeout) ..., if (updates.apiKey) ...
UpdateDefaults(defaults, updates) ==
  [baseURL |-> IF updates.baseURL \notin {undefined, ""} THEN updates.baseURL
               ELSE defaults.baseURL,
   timeout |-> IF updates.timeout \notin {UndefinedNum, 0} THEN updates.timeout
               ELSE defaults.timeout,
   authorization |-> IF updates.apiKey \notin {undefined, ""}
                     THEN <<"Bearer ", updates.apiKey>>
                     ELSE defaults.authorization]

\* getConfig(): { ...this.config }, a new object next to this.config
getConfig(heap) == [heap EXCEPT !.copy = heap.this]

(***************************************************************************)
(* spine: waitForExecution                                                 *)
(***************************************************************************)
DefaultWaitTimeout == 300000
DefaultInterval == 2000

\* isExecutionComplete(status)
isExecutionComplete(status) == status = "completed" \/ status = "failed"

\* const timeout = options.timeout || 300000, interval = options.interval || 2000
WaitTimeout(options) == OrNum(options.timeout, DefaultWaitTimeout)
WaitInterval(options) == OrNum(options.interval, DefaultInterval)

\* while (Date.now() - startTime < timeout)
WaitCondition(elapsedMs, options) == elapsedMs < WaitTimeout(options)

\* the error thrown after the loop
ExecutionTimeout(executionId, options) ==
  AISpineError(<<"Execution ", executionId, " did not complete within ",
                 ToString(WaitTimeout(options)), "ms">>,
               "EXECUTION_TIMEOUT", 408,
               <<"executionId", executionId, "timeout",
                 ToString(WaitTimeout(options))>>)

(***************************************************************************)
(* spine: executeBatch.  The requests are numbered from 1; what becomes of *)
(* a request is its outcome: the execution polled at the end is completed  *)
(* or failed, or executeFlow or waitForExecution throws an Error, or a     *)
(* value that is not an Error is thrown                                    *)
(***************************************************************************)
DefaultConcurrency == 5

\* const concurrency = options.concurrency || 5
Concurrency(options) == OrNum(options.concurrency, DefaultConcurrency)

RequestId(k) == "id" \o ToString(k)

\* variant: the result built in the catch block has no id
BatchResponse_CatchWithoutId(k, outcome) ==
  IF outcome \in {"completed", "failed"}
  THEN [id |-> RequestId(k), status |-> outcome,
        error |-> IF outcome = "failed" THEN "error_message" ELSE undefined]
  ELSE [id |-> undefined, status |-> "failed",
        error |-> IF outcome = "throwsValue" THEN "Unknown error"
                  ELSE outcome \o ": message"]

\* the BatchResponse executeRequest returns for request k
BatchResponse(k, outcome) ==
  IF outcome \in {"completed", "failed"}
  THEN [id |-> RequestId(k), status |-> outcome,
        error |-> IF outcome = "failed" THEN "error_message" ELSE undefined]
  ELSE [id |-> RequestId(k), status |-> "failed",
        error |-> IF outcome = "throwsValue" THEN "Unknown error"
                  ELSE outcome \o ": message"]

\* variant: everything that is left is started at once
Slice_ToEnd(i, concurrency, length) == (i + 1)..length

\* requests.slice(i, i + concurrency), as the numbers of its requests
Slice(i, concurrency, length) == (i + 1)..Min(i + concurrency, length)

(***************************************************************************)
(* webhooks: createWebhookMiddleware.  A request has the value of its      *)
(* x-ai-spine-signature header, undefined when it has none, and a body: a  *)
(* string, or an object of which json is the JSON.stringify                *)
(***************************************************************************)
\* typeof payload === 'string' ? payload : JSON.stringify(payload)
PayloadString(body) == IF body.type = "string" THEN body.text ELSE body.json

Reply(status, error) == [status |-> status, error |-> error]

\* variant: the return before res.status(401) is missing
Middleware_FallsThrough(req, secret, tolerance, now) ==
  IF ~req.signature.defined \/ req.signature.str = <<>>
  THEN [replies |-> <<Reply(400, <<"Missing webhook signature">>)>>, next |-> 0]
  ELSE LET verification ==
             verify(req.signature.str, PayloadString(req.body), secret, tolerance, now)
       IN  IF ~verification.valid
           THEN [replies |-> <<Reply(401, IF verification.error # NoText
                                          THEN verification.error
                                          ELSE <<"Invalid signature">>)>>,
                 next |-> 1]
           ELSE [replies |-> <<>>, next |-> 1]

\* the function createWebhookMiddleware(secret, tolerance) returns, applied
\* to a request: the responses it sends and the number of calls of next
Middleware(req, secret, tolerance, now) ==
  IF ~req.signature.defined \/ req.signature.str = <<>>
  THEN [replies |-> <<Reply(400, <<"Missing webhook signature">>)>>, next |-> 0]
  ELSE LET verification ==
             verify(req.signature.str, PayloadString(req.body), secret, tolerance, now)
       IN  IF ~verification.valid
           THEN [replies |-> <<Reply(401, IF verification.error # NoText
                                          THEN verification.error
                                          ELSE <<"Invalid signature">>)>>,
                 next |-> 0]
           ELSE [replies |-> <<>>, next |-> 1]

(***************************************************************************)
(* State of the request executor                                           *)
(***************************************************************************)
VARIABLES
  config,      \* this.config of the client (retries, timeout)
  configured,  \* the retries value last given to the constructor or updateConfig
  active,      \* the logical requests the caller issues
  pc,          \* per request: "idle", "attempting", "delay", "returned", "thrown"
  optRetries,  \* per request: options.retries of the call
  maxRetries,  \* per request: the local maxRetries
  attempt,     \* per request: the loop counter
  lastError,   \* per request: the local lastError; the value thrown at the end
  result,      \* per request: the SDKResponse returned
  issued,      \* per request: number of calls of requestFn
  delays,      \* per request: the delays slept so far, in order
  axiosError,  \* per request: the AxiosError of the latest failed attempt
  rejection,   \* per request: the value requestFn rejected with in that attempt
  firstError,  \* per request: lastError after the first failed attempt
  response,    \* per request: the AxiosResponse of the successful attempt
  clsPc,       \* classification of one failure: "off", "input", "created", "handled"
  clsArg,      \* the failure classified (status, data, message, response, code)
  clsErr,      \* the AISpineError the classification produced
  sigPc,       \* signature exchange: "off", "start", "received", "generated", "verified"
  header,      \* the signature header, a string
  genArgs,     \* the options of WebhookSignature.generate, when it made the header
  sigArgs,     \* the arguments of WebhookSignature.verify and the clock it read
  sigResult,   \* the WebhookVerificationResult
  emitPc,      \* emit: "off", "idle", "specific", "wildcard", "resolved", "rejected"
  handlers,    \* the Map of a WebhookEventHandler
  live,        \* the (type, handler) pairs registered and not removed since
  duplicate,   \* the latest change of the Map was an on of a registered pair
  mutations,   \* number of calls of on, off, removeAllHandlers since emit
  event,       \* event.event of the event emitted
  calls,       \* the calls of handlers made by emit, in order
  pending,     \* the promises of handlers that have not settled
  logged,      \* what console.error was called with
  thrown,      \* the handler whose exception rejected emit
  registered,  \* the handlers registered under event.event or '*' when emit was called
  retryPc,     \* WebhookRetry: "off", "new", "delay", "decision", "backoff"
  retry,       \* the WebhookRetry object: maxRetries, baseDelay
  retryCall,   \* the arguments of the call made: attempt, status
  retryOut,    \* what the call returned: delay, retry
  cfgPc,       \* configuration: "off", "constructed", "updated"
  heapConfig,  \* the objects: this.config and the one getConfig returned
  returnedRef, \* which object the caller of getConfig holds: "none", "copy"
  before,      \* this.config before updateConfig
  lastUpdate,  \* the argument of updateConfig
  httpDefaults,  \* this.http.defaults: baseURL, timeout, Authorization
  requestConfig, \* what the latest request was sent with
  waitPc,      \* waitForExecution: "off", "idle", "polling", "sleeping",
               \* "returned", "thrown"
  waitOpts,    \* its options: timeout, interval
  elapsed,     \* Date.now() - startTime, in ms
  polled,      \* the status of the execution polled last
  waitError,   \* the error the call threw
  batchPc,     \* executeBatch: "off", "idle", "running", "resolved"
  batchLength, \* requests.length
  batchOpts,   \* its options: concurrency
  batchIndex,  \* the loop variable i
  inFlight,    \* the requests whose executeRequest has started and not ended
  settled,     \* per request that has ended: its BatchResponse
  results,     \* the local results
  completed,   \* the local completed
  progress,    \* the calls of onProgress: (completed, total), in order
  mwPc,        \* middleware: "off", "listening", "done"
  mwArgs,      \* secret and tolerance given to createWebhookMiddleware, and now
  mwReq,       \* the request: signature header and body
  mwReplies,   \* the responses sent: status and error
  mwNext       \* number of calls of next()

execVars == <<config, configured, active, pc, optRetries, maxRetries, attempt,
              lastError, result, issued, delays, axiosError, rejection,
              firstError, response>>
clsVars == <<clsPc, clsArg, clsErr>>
sigVars == <<sigPc, header, genArgs, sigArgs, sigResult>>
evtVars == <<emitPc, handlers, live, duplicate, mutations, event, calls, pending,
             logged, thrown, registered>>
retryVars == <<retryPc, retry, retryCall, retryOut>>
cfgVars == <<cfgPc, heapConfig, returnedRef, before, lastUpdate, httpDefaults,
             requestConfig>>
waitVars == <<waitPc, waitOpts, elapsed, polled, waitError>>
batchVars == <<batchPc, batchLength, batchOpts, batchIndex, inFlight, settled,
               results, completed, progress>>
mwVars == <<mwPc, mwArgs, mwReq, mwReplies, mwNext>>
otherVars == <<retryVars, cfgVars, waitVars, batchVars, mwVars>>
nonExecVars == <<clsVars, sigVars, evtVars, otherVars>>
nonClsVars == <<active, pc, optRetries, maxRetries, attempt, lastError, result,
                issued, delays, axiosError, rejection, firstError, response,
                sigVars, evtVars, otherVars>>
nonSigVars == <<execVars, clsVars, evtVars, otherVars>>
nonEvtVars == <<execVars, clsVars, sigVars, otherVars>>
nonRetryVars == <<execVars, clsVars, sigVars, evtVars, cfgVars, waitVars, batchVars, mwVars>>
nonCfgVars == <<execVars, clsVars, sigVars, evtVars, retryVars, waitVars, batchVars, mwVars>>
nonWaitVars == <<execVars, clsVars, sigVars, evtVars, retryVars, cfgVars, batchVars, mwVars>>
nonBatchVars == <<execVars, clsVars, sigVars, evtVars, retryVars, cfgVars, waitVars, mwVars>>
nonMwVars == <<execVars, clsVars, sigVars, evtVars, retryVars, cfgVars, waitVars, batchVars>>

(***************************************************************************)
(* Inputs                                                                  *)
(***************************************************************************)
RetriesInputs == {UndefinedNum} \cup (0..MaxRetries)
TimeoutInputs == {UndefinedNum, 5000}
ConfigInputs == [retries : RetriesInputs, timeout : TimeoutInputs]
UpdateInputs == ConfigInputs \ {[retries |-> UndefinedNum, timeout |-> UndefinedNum]}

FailStatuses == {400, 401, 403, 404, 408, 409, 429, 500, 502, 503, 504}
NoResponseCodes == {"ECONNABORTED", "ETIMEDOUT", "ERR_NETWORK"}

\* failures of an attempt as the response interceptor sees them
AxiosErrors ==
  {[response |-> TRUE, status |-> s, data |-> EmptyBody,
    code |-> "ERR_BAD_RESPONSE", message |-> "Request failed"] : s \in FailStatuses}
  \cup
  {[response |-> FALSE, status |-> UndefinedNum, data |-> EmptyBody,
    code |-> c, message |-> "Network Error"] : c \in NoResponseCodes}

\* values that are not AISpineError and reach the catch block as they are
RawErrors ==
  {[NoError EXCEPT !.name = "TypeError"],
   [NoError EXCEPT !.name = "AxiosError", !.status = 404]}

AxiosResponses ==
  {[data |-> d, status |-> st[1], statusText |-> st[2], headers |-> "h1",
    config |-> "c1", request |-> "q1"] :
     d \in {"r1", "r2"}, st \in {<<200, "OK">>, <<201, "Created">>}}

NoAxiosResponse ==
  [data |-> undefined, status |-> UndefinedNum, statusText |-> undefined,
   headers |-> undefined, config |-> undefined, request |-> undefined]

(***************************************************************************)
(* Initial state: a client constructed from cfgIn, no request issued yet   *)
(***************************************************************************)
InitRequests ==
  /\ pc = [r \in Requests |-> "idle"]
  /\ optRetries = [r \in Requests |-> UndefinedNum]
  /\ maxRetries = [r \in Requests |-> 0]
  /\ attempt = [r \in Requests |-> 0]
  /\ lastError = [r \in Requests |-> NoError]
  /\ result = [r \in Requests |-> NoResponse]
  /\ issued = [r \in Requests |-> 0]
  /\ delays = [r \in Requests |-> <<>>]
  /\ axiosError = [r \in Requests |-> NoAxiosError]
  /\ rejection = [r \in Requests |-> NoError]
  /\ firstError = [r \in Requests |-> NoError]
  /\ response = [r \in Requests |-> NoAxiosResponse]

InitClient ==
  \E cfgIn \in ConfigInputs :
    /\ config = constructor(cfgIn)
    /\ configured = cfgIn.retries

\* a client constructed without retries and timeout
InitDefaultClient ==
  /\ config = constructor([retries |-> UndefinedNum, timeout |-> UndefinedNum])
  /\ configured = UndefinedNum

(***************************************************************************)
(* Actions                                                                 *)
(***************************************************************************)
\* get/post/put/delete/patch -> executeWithRetry up to the first await:
\* maxRetries is fixed, attempt = 0 passes the loop test, requestFn is called
executeWithRetry(r, opt) ==
  /\ r \in active
  /\ pc[r] = "idle"
  /\ optRetries' = [optRetries EXCEPT ![r] = opt]
  /\ LET maxR == EffectiveRetries(opt, config)
     IN  /\ maxRetries' = [maxRetries EXCEPT ![r] = maxR]
         /\ attempt' = [attempt EXCEPT ![r] = 0]
         /\ IF LoopCondition(0, maxR)
            THEN /\ pc' = [pc EXCEPT ![r] = "attempting"]
                 /\ issued' = [issued EXCEPT ![r] = 1]
            ELSE /\ pc' = [pc EXCEPT ![r] = "thrown"]
                 /\ issued' = issued
  /\ UNCHANGED <<config, configured, active, lastError, result, delays,
                 axiosError, rejection, firstError, response, nonExecVars>>

\* the awaited requestFn resolves: return the envelope
AttemptSucceeds(r, resp) ==
  /\ pc[r] = "attempting"
  /\ response' = [response EXCEPT ![r] = resp]
  /\ result' = [result EXCEPT ![r] = SDKResponse(resp)]
  /\ pc' = [pc EXCEPT ![r] = "returned"]
  /\ UNCHANGED <<config, configured, active, optRetries, maxRetries, attempt,
                 lastError, issued, delays, axiosError, rejection, firstError,
                 nonExecVars>>

\* the catch block, for the value `error` requestFn rejected with
Catch(r, error) ==
  LET lastErr == NextLastError(lastError[r], error)
  IN  /\ rejection' = [rejection EXCEPT ![r] = error]
      /\ lastError' = [lastError EXCEPT ![r] = lastErr]
      /\ firstError' = [firstError EXCEPT ![r] =
                          IF attempt[r] = 0 THEN lastErr ELSE firstError[r]]
      /\ IF IsTerminal(lastErr) \/ IsLastAttempt(attempt[r], maxRetries[r])
         THEN /\ pc' = [pc EXCEPT ![r] = "thrown"]
              /\ delays' = delays
         ELSE /\ pc' = [pc EXCEPT ![r] = "delay"]
              /\ delays' = [delays EXCEPT ![r] = Append(@, BackoffDelay(attempt[r]))]
      /\ UNCHANGED <<config, configured, active, optRetries, maxRetries,
                     attempt, result, issued, response, nonExecVars>>

\* the awaited requestFn rejects with an AxiosError: the response
\* interceptor rejects with handleError(error), which the catch block gets
AttemptFails(r, error) ==
  /\ pc[r] = "attempting"
  /\ axiosError' = [axiosError EXCEPT ![r] = error]
  /\ Catch(r, handleError(error, config))

\* the awaited requestFn rejects with a value that is not an AISpineError
AttemptThrows(r, error) ==
  /\ pc[r] = "attempting"
  /\ axiosError' = [axiosError EXCEPT ![r] = NoAxiosError]
  /\ Catch(r, error)

\* the backoff timer fires: attempt++, the loop test, the next requestFn call
DelayElapsed(r) ==
  /\ pc[r] = "delay"
  /\ attempt' = [attempt EXCEPT ![r] = @ + 1]
  /\ IF LoopCondition(attempt[r] + 1, maxRetries[r])
     THEN /\ pc' = [pc EXCEPT ![r] = "attempting"]
          /\ issued' = [issued EXCEPT ![r] = @ + 1]
     ELSE /\ pc' = [pc EXCEPT ![r] = "thrown"]
          /\ issued' = issued
  /\ UNCHANGED <<config, configured, active, optRetries, maxRetries, lastError,
                 result, delays, axiosError, rejection, firstError, response,
                 nonExecVars>>

\* updateConfig(updates)
updateConfig(updates) ==
  /\ config' = ObjectAssign(config, updates)
  /\ configured' = IF updates.retries = UndefinedNum THEN configured ELSE updates.retries
  /\ UNCHANGED <<active, pc, optRetries, maxRetries, attempt, lastError, result,
                 issued, delays, axiosError, rejection, firstError, response,
                 nonExecVars>>

vars == <<execVars, nonExecVars>>

\* the classification variables while no failure is being classified
ClassifyOff ==
  /\ clsPc = "off"
  /\ clsArg = NoAxiosError
  /\ clsErr = NoError

GenerateInputs ==
  [secret : Secrets, timestamp : Timestamps \cup RecentTimestamps,
   payload : Payloads]
NoGenerate == [secret |-> undefined, timestamp |-> <<>>, payload |-> <<>>]
NoVerify ==
  [payload |-> <<>>, secret |-> undefined, tolerance |-> UndefinedNum, now |-> 0]
NoResult == [valid |-> FALSE, error |-> NoText]

\* the signature variables while no signature is exchanged
SignatureOff ==
  /\ sigPc = "off"
  /\ header = <<>>
  /\ genArgs = NoGenerate
  /\ sigArgs = NoVerify
  /\ sigResult = NoResult

\* a WebhookEventHandler just constructed
NewHandler ==
  /\ handlers = <<>>
  /\ live = {}
  /\ duplicate = FALSE
  /\ mutations = 0
  /\ event = "none"
  /\ calls = <<>>
  /\ pending = {}
  /\ logged = {}
  /\ thrown = "none"
  /\ registered = {}

\* the handler variables while no WebhookEventHandler is used
HandlerOff ==
  /\ emitPc = "off"
  /\ NewHandler

NoRetryCall == [attempt |-> 0, status |-> UndefinedNum]
NoRetryOut == [delay |-> UndefinedNum, retry |-> FALSE]

\* the WebhookRetry variables while no WebhookRetry is used
RetryOff ==
  /\ retryPc = "off"
  /\ retry = WebhookRetry(UndefinedNum, UndefinedNum)
  /\ retryCall = NoRetryCall
  /\ retryOut = NoRetryOut

NoConfig == [apiKey |-> undefined, baseURL |-> undefined, timeout |-> UndefinedNum]
NoDefaults ==
  [baseURL |-> undefined, timeout |-> UndefinedNum, authorization |-> <<>>]

\* the configuration variables while no configuration is followed
ConfigOff ==
  /\ cfgPc = "off"
  /\ heapConfig = [this |-> NoConfig, copy |-> NoConfig]
  /\ returnedRef = "none"
  /\ before = NoConfig
  /\ lastUpdate = NoConfig
  /\ httpDefaults = NoDefaults
  /\ requestConfig = NoDefaults

NoWaitOptions == [timeout |-> UndefinedNum, interval |-> UndefinedNum]

\* the variables of waitForExecution while it is not called
WaitOff ==
  /\ waitPc = "off"
  /\ waitOpts = NoWaitOptions
  /\ elapsed = 0
  /\ polled = undefined
  /\ waitError = NoError

NoBatchOptions == [concurrency |-> UndefinedNum]
NoBatchResponse == [id |-> undefined, status |-> undefined, error |-> undefined]

\* executeBatch before it is called
NewBatch ==
  /\ batchLength = 0
  /\ batchOpts = NoBatchOptions
  /\ batchIndex = 0
  /\ inFlight = {}
  /\ settled = [k \in 1..MaxBatch |-> NoBatchResponse]
  /\ results = <<>>
  /\ completed = 0
  /\ progress = <<>>

\* the variables of executeBatch while it is not used
BatchOff ==
  /\ batchPc = "off"
  /\ NewBatch

NoRequest ==
  [signature |-> UndefinedStr, body |-> [type |-> "string", text |-> <<>>, json |-> <<>>]]
NoMiddleware == [secret |-> undefined, tolerance |-> UndefinedNum, now |-> 0]

\* the variables of the middleware while there is none
MiddlewareOff ==
  /\ mwPc = "off"
  /\ mwArgs = NoMiddleware
  /\ mwReq = NoRequest
  /\ mwReplies = <<>>
  /\ mwNext = 0

OthersOff == RetryOff /\ ConfigOff /\ WaitOff /\ BatchOff /\ MiddlewareOff

(***************************************************************************)
(* Spec: one client and one logical request                                *)
(***************************************************************************)
Init ==
  /\ InitClient
  /\ InitRequests
  /\ active = {1}
  /\ ClassifyOff
  /\ SignatureOff
  /\ HandlerOff
  /\ OthersOff

Next ==
  \/ \E r \in Requests, opt \in RetriesInputs : executeWithRetry(r, opt)
  \/ \E r \in Requests, resp \in AxiosResponses : AttemptSucceeds(r, resp)
  \/ \E r \in Requests, error \in AxiosErrors : AttemptFails(r, error)
  \/ \E r \in Requests, error \in RawErrors : AttemptThrows(r, error)
  \/ \E r \in Requests : DelayElapsed(r)
  \/ \E updates \in UpdateInputs : updateConfig(updates)

Spec == Init /\ [][Next]_vars

TypeOK ==
  /\ pc \in [Requests -> {"idle", "attempting", "delay", "returned", "thrown"}]
  /\ config.retries \in 0..MaxRetries
  /\ \A r \in Requests : Len(delays[r]) <= MaxRetries

(***************************************************************************)
(* SpecClassify: one failure, drawn from the inputs below, is classified   *)
(* by createErrorFromResponse (the exported function) or by handleError    *)
(* (the executor's response interceptor)                                   *)
(***************************************************************************)
Bodies ==
  [message : {undefined, "m1"}, error : {undefined, "e1"},
   validation_errors : {NoDetails, <<"ve1">>},
   details : {NoDetails, <<"object", "d1">>},
   retry_after : {UndefinedNum, 30}, timeout : {UndefinedNum, 7000}]

ClassifyStatuses == FailStatuses \cup {418, 501}

ClassifyInputs ==
  {[response |-> TRUE, status |-> s, data |-> b, code |-> "ERR_BAD_RESPONSE",
    message |-> m] :
     s \in ClassifyStatuses, b \in Bodies, m \in {undefined, "Request failed"}}
  \cup
  {[response |-> FALSE, status |-> UndefinedNum, data |-> EmptyBody,
    code |-> c, message |-> "Network Error"] : c \in NoResponseCodes}

InitClassify ==
  /\ InitClient
  /\ InitRequests
  /\ active = {}
  /\ clsPc = "input"
  /\ clsArg \in ClassifyInputs
  /\ clsErr = NoError
  /\ SignatureOff
  /\ HandlerOff
  /\ OthersOff

\* createErrorFromResponse(status, data, message) called on a response
CallCreateErrorFromResponse ==
  /\ clsPc = "input"
  /\ clsArg.response
  /\ clsErr' = createErrorFromResponse(clsArg.status, clsArg.data, clsArg.message)
  /\ clsPc' = "created"
  /\ UNCHANGED <<config, configured, nonClsVars, clsArg>>

\* handleError(error) called by the response interceptor; an AxiosError
\* always has a message
CallHandleError ==
  /\ clsPc = "input"
  /\ clsArg.message # undefined
  /\ clsErr' = handleError(clsArg, config)
  /\ clsPc' = "handled"
  /\ UNCHANGED <<config, configured, nonClsVars, clsArg>>

NextClassify ==
  \/ CallCreateErrorFromResponse
  \/ CallHandleError

SpecClassify == InitClassify /\ [][NextClassify]_vars

(***************************************************************************)
(* SpecSignature: a signature header arrives, from WebhookSignature.       *)
(* generate or from anywhere else, and WebhookSignature.verify checks it   *)
(***************************************************************************)
NowValues == {1000500}
ToleranceInputs == {UndefinedNum, 50}

\* elements a header may be made of
TimestampElements == {<<"t", "=">> \o t : t \in Timestamps \cup {<<>>}}
SignatureElements ==
  {<<"v1", "=", HmacHex("whsec_1", SignedPayload(t, <<"{a}">>))>> : t \in Timestamps}
  \cup
  {<<"v1", "=", HmacHex("whsec_2", SignedPayload(T900, <<"{a}">>))>>,
   <<"v1", "=", HmacHex("whsec_1", SignedPayload(T900, <<"{b}">>))>>,
   <<"v1", "=", UpperHex(HmacHex("whsec_1", SignedPayload(T900, <<"{a}">>)))>>,
   <<"v1", "=", "a", "b", "c", "1", "2", "3">>,
   <<"v1">>}
Elements == TimestampElements \cup SignatureElements

\* Array.prototype.join(',')
RECURSIVE Join(_)
Join(elements) ==
  IF elements = <<>> THEN <<>>
  ELSE IF Len(elements) = 1 THEN elements[1]
  ELSE elements[1] \o <<",">> \o Join(Tail(elements))

Headers == {Join(f) : f \in UNION {[1..n -> Elements] : n \in 0..MaxElements}}

InitSignature ==
  /\ InitDefaultClient
  /\ InitRequests
  /\ active = {}
  /\ ClassifyOff
  /\ sigPc = "start"
  /\ header = <<>>
  /\ genArgs = NoGenerate
  /\ sigArgs = NoVerify
  /\ sigResult = NoResult
  /\ HandlerOff
  /\ OthersOff

\* a request arrives with the signature header h
ReceiveHeader(h) ==
  /\ sigPc = "start"
  /\ header' = h
  /\ sigPc' = "received"
  /\ UNCHANGED <<genArgs, sigArgs, sigResult, nonSigVars>>

\* the sender calls WebhookSignature.generate(options)
Generate(options) ==
  /\ sigPc = "start"
  /\ header' = generate(options)
  /\ genArgs' = options
  /\ sigPc' = "generated"
  /\ UNCHANGED <<sigArgs, sigResult, nonSigVars>>

\* the receiver calls WebhookSignature.verify(header, payload, secret, tolerance)
Verify(payload, secret, tolerance, now) ==
  /\ sigPc \in {"received", "generated"}
  /\ sigArgs' = [payload |-> payload, secret |-> secret, tolerance |-> tolerance,
                 now |-> now]
  /\ sigResult' = verify(header, payload, secret, tolerance, now)
  /\ sigPc' = "verified"
  /\ UNCHANGED <<header, genArgs, nonSigVars>>

NextSignature ==
  \/ \E h \in Headers : ReceiveHeader(h)
  \/ \E options \in GenerateInputs : Generate(options)
  \/ \E payload \in Payloads, secret \in Secrets, tolerance \in ToleranceInputs,
        now \in NowValues : Verify(payload, secret, tolerance, now)

SpecSignature == InitSignature /\ [][NextSignature]_vars

(***************************************************************************)
(* SpecConcurrent: all the logical requests are in flight on one client,   *)
(* their attempts and delays interleave, and updateConfig is called in     *)
(* between                                                                 *)
(***************************************************************************)
ConcurrentRetries == {UndefinedNum, 0}
ConcurrentUpdates ==
  {[retries |-> n, timeout |-> UndefinedNum] : n \in {0, 2}}
ConcurrentErrors ==
  {error \in AxiosErrors : error.status \in {404, 503}}
ConcurrentResponses ==
  {resp \in AxiosResponses : resp.status = 200 /\ resp.data = "r1"}

InitConcurrent ==
  /\ config = constructor([retries |-> 1, timeout |-> UndefinedNum])
  /\ configured = 1
  /\ InitRequests
  /\ active = Requests
  /\ ClassifyOff
  /\ SignatureOff
  /\ HandlerOff
  /\ OthersOff

NextConcurrent ==
  \/ \E r \in Requests, opt \in ConcurrentRetries : executeWithRetry(r, opt)
  \/ \E r \in Requests, resp \in ConcurrentResponses : AttemptSucceeds(r, resp)
  \/ \E r \in Requests, error \in ConcurrentErrors : AttemptFails(r, error)
  \/ \E r \in Requests : DelayElapsed(r)
  \/ \E updates \in ConcurrentUpdates : updateConfig(updates)

SpecConcurrent == InitConcurrent /\ [][NextConcurrent]_vars

(***************************************************************************)
(* SpecRetry: a WebhookRetry is constructed and one of its methods, or the *)
(* backoff of the executor, is applied to an attempt number                *)
(***************************************************************************)
RetryLimits == {UndefinedNum, 0, 1, 3, 10}
BaseDelays == {UndefinedNum, 2, 1000, 10000, 40000}
AttemptNumbers == 0..MaxAttemptNumber
RetryStatuses ==
  {200, 204, 301, 400, 401, 404, 408, 409, 429, 499, 500, 502, 503, 599, 600}

InitRetry ==
  /\ InitDefaultClient
  /\ InitRequests
  /\ active = {}
  /\ ClassifyOff
  /\ SignatureOff
  /\ HandlerOff
  /\ MiddlewareOff
  /\ BatchOff
  /\ WaitOff
  /\ ConfigOff
  /\ retryPc = "new"
  /\ \E maxRetriesArg \in RetryLimits, baseDelayArg \in BaseDelays :
       retry = WebhookRetry(maxRetriesArg, baseDelayArg)
  /\ retryCall = NoRetryCall
  /\ retryOut = NoRetryOut

\* retry.getRetryDelay(attempt)
CallGetRetryDelay(attemptNumber) ==
  /\ retryPc = "new"
  /\ retryCall' = [attempt |-> attemptNumber, status |-> UndefinedNum]
  /\ retryOut' = [delay |-> getRetryDelay(retry, attemptNumber), retry |-> FALSE]
  /\ retryPc' = "delay"
  /\ UNCHANGED <<retry, nonRetryVars>>

\* retry.shouldRetry(status, attempt)
CallShouldRetry(status, attemptNumber) ==
  /\ retryPc = "new"
  /\ retryCall' = [attempt |-> attemptNumber, status |-> status]
  /\ retryOut' = [delay |-> UndefinedNum,
                  retry |-> shouldRetry(retry, status, attemptNumber)]
  /\ retryPc' = "decision"
  /\ UNCHANGED <<retry, nonRetryVars>>

\* the delay executeWithRetry computes after the failure of attempt
CallBackoffDelay(attemptNumber) ==
  /\ retryPc = "new"
  /\ retryCall' = [attempt |-> attemptNumber, status |-> UndefinedNum]
  /\ retryOut' = [delay |-> BackoffDelay(attemptNumber), retry |-> FALSE]
  /\ retryPc' = "backoff"
  /\ UNCHANGED <<retry, nonRetryVars>>

NextRetry ==
  \/ \E attemptNumber \in AttemptNumbers : CallGetRetryDelay(attemptNumber)
  \/ \E status \in RetryStatuses, attemptNumber \in AttemptNumbers :
       CallShouldRetry(status, attemptNumber)
  \/ \E attemptNumber \in AttemptNumbers : CallBackoffDelay(attemptNumber)

SpecRetry == InitRetry /\ [][NextRetry]_vars

(***************************************************************************)
(* SpecConfig: a client is constructed, updateConfig is called once, and   *)
(* getConfig, changes of the object it returned and requests follow in any *)
(* order                                                                   *)
(***************************************************************************)
ApiKeys == {undefined, "", "sk_one", "sk_two"}
BaseURLs == {undefined, "", "https://one.example", "https://two.example"}
Timeouts == {UndefinedNum, 0, 5000, 60000}
FullConfigInputs == [apiKey : ApiKeys, baseURL : BaseURLs, timeout : Timeouts]

InitConfig ==
  /\ InitDefaultClient
  /\ InitRequests
  /\ active = {}
  /\ ClassifyOff
  /\ SignatureOff
  /\ HandlerOff
  /\ MiddlewareOff
  /\ BatchOff
  /\ WaitOff
  /\ RetryOff
  /\ cfgPc = "constructed"
  /\ \E cfgIn \in FullConfigInputs :
       /\ cfgIn.apiKey # ""
       /\ cfgIn.baseURL # ""
       /\ cfgIn.timeout # 0
       /\ heapConfig = [this |-> NewClientConfig(cfgIn), copy |-> NoConfig]
       /\ httpDefaults = CreateDefaults(NewClientConfig(cfgIn))
  /\ returnedRef = "none"
  /\ before = NoConfig
  /\ lastUpdate = NoConfig
  /\ requestConfig = NoDefaults

\* updateConfig(updates)
CallUpdateConfig(updates) ==
  /\ cfgPc = "constructed"
  /\ before' = heapConfig.this
  /\ lastUpdate' = updates
  /\ heapConfig' = [heapConfig EXCEPT !.this = AssignUpdates(@, updates)]
  /\ httpDefaults' = UpdateDefaults(httpDefaults, updates)
  /\ requestConfig' = NoDefaults
  /\ cfgPc' = "updated"
  /\ UNCHANGED <<returnedRef, nonCfgVars>>

\* const c = client.getConfig()
CallGetConfig ==
  /\ cfgPc \in {"constructed", "updated"}
  /\ heapConfig' = getConfig(heapConfig)
  /\ returnedRef' = "copy"
  /\ UNCHANGED <<cfgPc, before, lastUpdate, httpDefaults, requestConfig, nonCfgVars>>

\* the caller assigns to a field of the object getConfig returned
ChangeReturned(cfgIn) ==
  /\ returnedRef # "none"
  /\ heapConfig' = [heapConfig EXCEPT ![returnedRef] = cfgIn]
  /\ UNCHANGED <<cfgPc, returnedRef, before, lastUpdate, httpDefaults,
                 requestConfig, nonCfgVars>>

\* a request without options of its own goes out with the defaults
SendRequest ==
  /\ cfgPc \in {"constructed", "updated"}
  /\ requestConfig' = httpDefaults
  /\ UNCHANGED <<cfgPc, heapConfig, returnedRef, before, lastUpdate, httpDefaults,
                 nonCfgVars>>

NextConfig ==
  \/ \E updates \in FullConfigInputs : CallUpdateConfig(updates)
  \/ CallGetConfig
  \/ \E cfgIn \in {[apiKey |-> "sk_two", baseURL |-> "https://two.example",
                   timeout |-> 1]} : ChangeReturned(cfgIn)
  \/ SendRequest

SpecConfig == InitConfig /\ [][NextConfig]_vars

(***************************************************************************)
(* SpecWait: waitForExecution is called once; every getExecution takes     *)
(* some time and answers a status, or throws; every delay lasts interval   *)
(***************************************************************************)
WaitTimeouts == {UndefinedNum, 3000, 5000}
WaitIntervals == {UndefinedNum, 1000}
PollDurations == {0, 500, 1500}
ExecutionStatuses == {"pending", "running", "completed", "failed"}
PollErrors == {ServerError("m1", 503, NoDetails), NotFoundError("Execution")}

InitWait ==
  /\ InitDefaultClient
  /\ InitRequests
  /\ active = {}
  /\ ClassifyOff
  /\ SignatureOff
  /\ HandlerOff
  /\ MiddlewareOff
  /\ BatchOff
  /\ RetryOff
  /\ ConfigOff
  /\ waitPc = "idle"
  /\ waitOpts = NoWaitOptions
  /\ elapsed = 0
  /\ polled = undefined
  /\ waitError = NoError

\* waitForExecution(executionId, options) up to its first await
waitForExecution(options) ==
  /\ waitPc = "idle"
  /\ waitOpts' = options
  /\ IF WaitCondition(0, options)
     THEN waitPc' = "polling" /\ waitError' = waitError
     ELSE waitPc' = "thrown" /\ waitError' = ExecutionTimeout("exec-123", options)
  /\ UNCHANGED <<elapsed, polled, nonWaitVars>>

\* getExecution answers after duration ms with an execution of this status
PollReturns(status, duration) ==
  /\ waitPc = "polling"
  /\ elapsed' = elapsed + duration
  /\ polled' = status
  /\ waitPc' = IF isExecutionComplete(status) THEN "returned" ELSE "sleeping"
  /\ UNCHANGED <<waitOpts, waitError, nonWaitVars>>

\* getExecution throws after duration ms: the error leaves waitForExecution
PollThrows(error, duration) ==
  /\ waitPc = "polling"
  /\ elapsed' = elapsed + duration
  /\ waitError' = error
  /\ waitPc' = "thrown"
  /\ UNCHANGED <<waitOpts, polled, nonWaitVars>>

\* delay(interval) is over: the loop test, then the next poll or the throw
DelayOver ==
  /\ waitPc = "sleeping"
  /\ elapsed' = elapsed + WaitInterval(waitOpts)
  /\ IF WaitCondition(elapsed + WaitInterval(waitOpts), waitOpts)
     THEN waitPc' = "polling" /\ waitError' = waitError
     ELSE waitPc' = "thrown" /\ waitError' = ExecutionTimeout("exec-123", waitOpts)
  /\ UNCHANGED <<waitOpts, polled, nonWaitVars>>

NextWait ==
  \/ \E timeout \in WaitTimeouts, interval \in WaitIntervals :
       waitForExecution([timeout |-> timeout, interval |-> interval])
  \/ \E status \in ExecutionStatuses, duration \in PollDurations :
       PollReturns(status, duration)
  \/ \E error \in PollErrors, duration \in PollDurations : PollThrows(error, duration)
  \/ DelayOver

SpecWait == InitWait /\ [][NextWait]_vars

(***************************************************************************)
(* SpecBatch: executeBatch is called once on 0 to MaxBatch requests; the   *)
(* requests in flight end in any order, with any outcome.  SpecBatchFair   *)
(* adds that a request in flight does end and that the loop goes on        *)
(***************************************************************************)
BatchLengths == 0..MaxBatch
ConcurrencyInputs == {UndefinedNum, 1, 2}
RequestOutcomes ==
  {"completed", "failed", "executeFlow", "waitForExecution", "throwsValue"}

InitBatch ==
  /\ InitDefaultClient
  /\ InitRequests
  /\ active = {}
  /\ ClassifyOff
  /\ SignatureOff
  /\ HandlerOff
  /\ MiddlewareOff
  /\ RetryOff
  /\ ConfigOff
  /\ WaitOff
  /\ batchPc = "idle"
  /\ NewBatch

\* executeBatch(requests, options) up to its first await: the first slice
\* is mapped with executeRequest, or there is no request and it returns
executeBatch(length, options) ==
  /\ batchPc = "idle"
  /\ batchLength' = length
  /\ batchOpts' = options
  /\ inFlight' = Slice(0, Concurrency(options), length)
  /\ batchPc' = IF 0 < length THEN "running" ELSE "resolved"
  /\ UNCHANGED <<batchIndex, settled, results, completed, progress, nonBatchVars>>

\* executeRequest of request k ends, in its try block or in its catch
\* block: completed++, onProgress(completed, requests.length)
RequestEnds(k, outcome) ==
  /\ batchPc = "running"
  /\ k \in inFlight
  /\ inFlight' = inFlight \ {k}
  /\ settled' = [settled EXCEPT ![k] = BatchResponse(k, outcome)]
  /\ completed' = completed + 1
  /\ progress' = Append(progress, <<completed + 1, batchLength>>)
  /\ UNCHANGED <<batchPc, batchLength, batchOpts, batchIndex, results,
                 nonBatchVars>>

\* Promise.all of the slice is fulfilled: results.push(...batchResults),
\* i += concurrency, the loop test, the next slice or the return
SliceDone ==
  /\ batchPc = "running"
  /\ inFlight = {}
  /\ LET concurrency == Concurrency(batchOpts)
         last == Min(batchIndex + concurrency, batchLength)
         next == batchIndex + concurrency
     IN  /\ results' = results \o [j \in 1..(last - batchIndex) |->
                                     settled[batchIndex + j]]
         /\ batchIndex' = next
         /\ inFlight' = IF next < batchLength
                        THEN Slice(next, concurrency, batchLength)
                        ELSE {}
         /\ batchPc' = IF next < batchLength THEN "running" ELSE "resolved"
  /\ UNCHANGED <<batchLength, batchOpts, settled, completed, progress,
                 nonBatchVars>>

NextBatch ==
  \/ \E length \in BatchLengths, concurrency \in ConcurrencyInputs :
       executeBatch(length, [concurrency |-> concurrency])
  \/ \E k \in 1..MaxBatch, outcome \in RequestOutcomes : RequestEnds(k, outcome)
  \/ SliceDone

SpecBatch == InitBatch /\ [][NextBatch]_vars

SpecBatchFair ==
  /\ SpecBatch
  /\ WF_vars(\E k \in 1..MaxBatch, outcome \in RequestOutcomes :
               RequestEnds(k, outcome))
  /\ WF_vars(SliceDone)

(***************************************************************************)
(* SpecMiddleware: a middleware is created for a secret and a tolerance    *)
(* and gets one request                                                    *)
(***************************************************************************)
RequestBodies ==
  {[type |-> "string", text |-> payload, json |-> <<"\"">> \o payload \o <<"\"">>] :
     payload \in Payloads}
  \cup
  {[type |-> "object", text |-> <<"[object Object]">>, json |-> payload] :
     payload \in Payloads}

RequestSignatures ==
  {UndefinedStr, Str(<<>>), Str(<<"v1", "=", "a", "b", "c", "1", "2", "3">>),
   Str(<<"t", "=", "9", "0", "0", ",", "v1", "=", "a", "b", "c", "1", "2", "3">>)}
  \cup {Str(generate(options)) : options \in GenerateInputs}

InitMiddleware ==
  /\ InitDefaultClient
  /\ InitRequests
  /\ active = {}
  /\ ClassifyOff
  /\ SignatureOff
  /\ HandlerOff
  /\ RetryOff
  /\ ConfigOff
  /\ WaitOff
  /\ BatchOff
  /\ mwPc = "listening"
  /\ \E secret \in Secrets, tolerance \in ToleranceInputs, now \in NowValues :
       mwArgs = [secret |-> secret, tolerance |-> tolerance, now |-> now]
  /\ mwReq = NoRequest
  /\ mwReplies = <<>>
  /\ mwNext = 0

\* the middleware is called with a request
HandleRequest(req) ==
  /\ mwPc = "listening"
  /\ mwReq' = req
  /\ LET outcome == Middleware(req, mwArgs.secret, mwArgs.tolerance, mwArgs.now)
     IN  /\ mwReplies' = outcome.replies
         /\ mwNext' = outcome.next
  /\ mwPc' = "done"
  /\ UNCHANGED <<mwArgs, nonMwVars>>

NextMiddleware ==
  \E signature \in RequestSignatures, body \in RequestBodies :
    HandleRequest([signature |-> signature, body |-> body])

SpecMiddleware == InitMiddleware /\ [][NextMiddleware]_vars

(***************************************************************************)
(* SpecHandler: one WebhookEventHandler; handlers are registered and       *)
(* removed at any time, one event is emitted, and the promises of the      *)
(* handlers settle, or do not, in any order                                *)
(***************************************************************************)
InitHandler ==
  /\ InitDefaultClient
  /\ InitRequests
  /\ active = {}
  /\ ClassifyOff
  /\ SignatureOff
  /\ emitPc = "idle"
  /\ NewHandler
  /\ OthersOff

\* on(eventType, handler)
on(eventType, handler) ==
  /\ emitPc # "off"
  /\ emitPc = "idle" \/ mutations < MaxMutations
  /\ handlers' = HandlersAfterOn(handlers, eventType, handler)
  /\ live' = live \cup {<<eventType, handler>>}
  /\ duplicate' = (<<eventType, handler>> \in live)
  /\ mutations' = IF emitPc = "idle" THEN 0 ELSE mutations + 1
  /\ UNCHANGED <<emitPc, event, calls, pending, logged, thrown, registered,
                 nonEvtVars>>

\* off(eventType, handler)
off(eventType, handler) ==
  /\ emitPc # "off"
  /\ emitPc = "idle" \/ mutations < MaxMutations
  /\ handlers' = HandlersAfterOff(handlers, eventType, handler)
  /\ live' = live \ {<<eventType, handler>>}
  /\ duplicate' = FALSE
  /\ mutations' = IF emitPc = "idle" THEN 0 ELSE mutations + 1
  /\ UNCHANGED <<emitPc, event, calls, pending, logged, thrown, registered,
                 nonEvtVars>>

\* removeAllHandlers()
removeAllHandlers ==
  /\ emitPc # "off"
  /\ emitPc = "idle" \/ mutations < MaxMutations
  /\ handlers' = <<>>
  /\ live' = {}
  /\ duplicate' = FALSE
  /\ mutations' = IF emitPc = "idle" THEN 0 ELSE mutations + 1
  /\ UNCHANGED <<emitPc, event, calls, pending, logged, thrown, registered,
                 nonEvtVars>>

\* emit(event), up to its first await, outcome telling what each handler
\* does when it is called
emit(eventType, outcome) ==
  /\ emitPc = "idle"
  /\ LET phase == SpecificPhase(handlers, eventType, outcome)
     IN  /\ emitPc' = phase.pc
         /\ calls' = phase.calls
         /\ pending' = phase.pending
         /\ thrown' = phase.thrown
  /\ event' = eventType
  /\ registered' = {handler \in Handlers :
                      <<eventType, handler>> \in live \/ <<"*", handler>> \in live}
  /\ UNCHANGED <<handlers, live, duplicate, mutations, logged, nonEvtVars>>

\* the first Promise.all is fulfilled and emit goes on with the handlers of '*'
SpecificSettled(outcome) ==
  /\ emitPc = "specific"
  /\ \A promise \in pending : promise.phase # "specific"
  /\ LET phase == WildcardPhase(handlers, outcome,
                                [pc |-> emitPc, calls |-> calls,
                                 pending |-> pending, thrown |-> thrown])
     IN  /\ emitPc' = phase.pc
         /\ calls' = phase.calls
         /\ pending' = phase.pending
         /\ thrown' = phase.thrown
  /\ UNCHANGED <<handlers, live, duplicate, mutations, event, logged, registered,
                 nonEvtVars>>

\* the second Promise.all is fulfilled and emit returns
WildcardSettled ==
  /\ emitPc = "wildcard"
  /\ \A promise \in pending : promise.phase # "wildcard"
  /\ emitPc' = "resolved"
  /\ UNCHANGED <<handlers, live, duplicate, mutations, event, calls, pending, logged,
                 thrown, registered, nonEvtVars>>

\* the promise a handler returned is fulfilled
HandlerResolves(promise) ==
  /\ promise \in pending
  /\ pending' = pending \ {promise}
  /\ UNCHANGED <<emitPc, handlers, live, duplicate, mutations, event, calls, logged,
                 thrown, registered, nonEvtVars>>

\* the promise a handler returned rejects: the catch callback logs the error
HandlerRejects(promise) ==
  /\ promise \in pending
  /\ pending' = pending \ {promise}
  /\ logged' = logged \cup {[message |-> LogMessage(promise.phase, event),
                             handler |-> promise.handler]}
  /\ UNCHANGED <<emitPc, handlers, live, duplicate, mutations, event, calls, thrown,
                 registered, nonEvtVars>>

Promises == {Promise(phase, handler) : phase \in {"specific", "wildcard"},
                                       handler \in Handlers}

NextHandler ==
  \/ \E eventType \in EventTypes, handler \in Handlers : on(eventType, handler)
  \/ \E eventType \in EventTypes, handler \in Handlers : off(eventType, handler)
  \/ removeAllHandlers
  \/ \E eventType \in EventTypes, outcome \in [Handlers -> Outcomes] :
       emit(eventType, outcome)
  \/ \E outcome \in [Handlers -> Outcomes] : SpecificSettled(outcome)
  \/ WildcardSettled
  \/ \E promise \in Promises : HandlerResolves(promise)
  \/ \E promise \in Promises : HandlerRejects(promise)

SpecHandler == InitHandler /\ [][NextHandler]_vars

(***************************************************************************)
(* Properties of the request executor                                      *)
(***************************************************************************)
TerminalCodes ==
  {"VALIDATION_ERROR", "AUTHENTICATION_ERROR", "AUTHORIZATION_ERROR", "NOT_FOUND"}
RetryableCodes ==
  {"SERVER_ERROR", "RATE_LIMIT_ERROR", "TIMEOUT_ERROR", "NETWORK_ERROR", "UNKNOWN_ERROR"}
ExpectedDelays == <<1000, 2000, 4000, 8000, 10000, 10000, 10000, 10000>>

\* C1: for one logical request, the attempt counter never exceeds maxRetries,
\* at most maxRetries+1 attempts are issued, and the loop goes on exactly
\* while no attempt succeeded, no failure was non-retryable and attempts
\* remain: it ends at the first success, at the first non-retryable error or
\* at exhaustion.
C1_RetryBounded ==
  \A r \in Requests :
    /\ attempt[r] <= maxRetries[r]
    /\ issued[r] <= maxRetries[r] + 1
    /\ pc[r] = "returned" => response[r] # NoAxiosResponse
    /\ pc[r] = "thrown" =>
         /\ response[r] = NoAxiosResponse
         /\ lastError[r].code \in TerminalCodes \/ attempt[r] = maxRetries[r]
    /\ pc[r] \in {"attempting", "delay"} =>
         /\ response[r] = NoAxiosResponse
         /\ lastError[r].code \notin TerminalCodes
         /\ issued[r] = attempt[r] + 1
    /\ pc[r] = "delay" => attempt[r] < maxRetries[r]

C1_Witness ==
  /\ pc[1] = "thrown"
  /\ maxRetries[1] = MaxRetries
  /\ attempt[1] = MaxRetries
  /\ issued[1] = MaxRetries + 1
  /\ lastError[1].code = "RATE_LIMIT_ERROR"

\* C2: once an attempt has failed with HTTP status 400, 401, 403 or 404 the
\* request is over: no further attempt, no delay after that attempt, and the
\* error thrown is the validation, authentication, authorization or
\* not-found error respectively.
C2_TerminalNotRetried ==
  \A r \in Requests :
    (axiosError[r].response /\ axiosError[r].status \in {400, 401, 403, 404}) =>
      /\ pc[r] = "thrown"
      /\ issued[r] = attempt[r] + 1
      /\ Len(delays[r]) = attempt[r]
      /\ lastError[r].code =
           CASE axiosError[r].status = 400 -> "VALIDATION_ERROR"
             [] axiosError[r].status = 401 -> "AUTHENTICATION_ERROR"
             [] axiosError[r].status = 403 -> "AUTHORIZATION_ERROR"
             [] axiosError[r].status = 404 -> "NOT_FOUND"

C2_Witness ==
  /\ pc[1] = "thrown"
  /\ axiosError[1].status = 404
  /\ attempt[1] = 1
  /\ maxRetries[1] = 4
  /\ delays[1] = <<1000>>

\* C3: the delays slept are 1000, 2000, 4000, 8000, 10000, 10000, ... in
\* that order, one before each retry; a request that ends by throwing an
\* error of a retryable kind has made maxRetries+1 attempts and maxRetries
\* delays, none after the last attempt.
C3_BackoffSchedule ==
  \A r \in Requests :
    /\ \A k \in 1..Len(delays[r]) : delays[r][k] = ExpectedDelays[k]
    /\ pc[r] = "attempting" => Len(delays[r]) = attempt[r]
    /\ pc[r] = "delay" =>
         /\ Len(delays[r]) = attempt[r] + 1
         /\ lastError[r].code \in RetryableCodes
    /\ (pc[r] = "thrown" /\ lastError[r].code \in RetryableCodes) =>
         /\ issued[r] = maxRetries[r] + 1
         /\ Len(delays[r]) = maxRetries[r]
         /\ axiosError[r].response =>
              lastError[r].code =
                CASE axiosError[r].status \in {500, 502, 503, 504} -> "SERVER_ERROR"
                  [] axiosError[r].status = 429 -> "RATE_LIMIT_ERROR"
                  [] axiosError[r].status = 408 -> "TIMEOUT_ERROR"
                  [] OTHER -> "UNKNOWN_ERROR"

C3_Witness ==
  /\ pc[1] = "thrown"
  /\ lastError[1].code = "SERVER_ERROR"
  /\ lastError[1].status = 503
  /\ delays[1] = <<1000, 2000, 4000, 8000, 10000>>

\* C4: the step in which an attempt succeeds returns data, status,
\* statusText and headers of that attempt's response, and nothing else,
\* whatever failed before; after it no attempt is issued, no delay is
\* slept and the result does not change.
C4_ReturnsFirstSuccess ==
  [][\A r \in Requests :
       /\ (pc[r] # "returned" /\ pc'[r] = "returned") =>
            /\ DOMAIN result'[r] = {"data", "status", "statusText", "headers"}
            /\ result'[r].data = response'[r].data
            /\ result'[r].status = response'[r].status
            /\ result'[r].statusText = response'[r].statusText
            /\ result'[r].headers = response'[r].headers
            /\ issued'[r] = issued[r]
            /\ delays'[r] = delays[r]
       /\ pc[r] = "returned" =>
            /\ pc'[r] = "returned"
            /\ result'[r] = result[r]
            /\ issued'[r] = issued[r]
            /\ delays'[r] = delays[r]]_vars

C4_Witness ==
  /\ pc[1] = "returned"
  /\ issued[1] = 3
  /\ lastError[1].code = "SERVER_ERROR"
  /\ result[1] = [data |-> "r2", status |-> 201, statusText |-> "Created",
                  headers |-> "h1"]

\* C5: a request that ends without a success ends by throwing an
\* AISpineError, which is the rejection of the last attempt made: that
\* AISpineError itself, or its wrapping with code UNKNOWN_ERROR and no
\* status when the rejection is not an AISpineError, in which case the
\* retry decision is that of an error without status.
C5_ThrowsLastError ==
  \A r \in Requests :
    /\ pc[r] = "returned" => response[r] # NoAxiosResponse
    /\ pc[r] \in {"delay", "thrown"} =>
         /\ lastError[r].name \in AISpineErrorNames
         /\ IF rejection[r].name \in AISpineErrorNames
            THEN lastError[r] = rejection[r]
            ELSE /\ lastError[r].name = "AISpineError"
                 /\ lastError[r].code = "UNKNOWN_ERROR"
                 /\ lastError[r].status = UndefinedNum
                 /\ lastError[r].details = <<"originalError", rejection[r].name>>
                 /\ pc[r] = "thrown" => attempt[r] = maxRetries[r]
         /\ axiosError[r].response => lastError[r].status = axiosError[r].status

C5_Witness ==
  /\ pc[1] = "thrown"
  /\ issued[1] = 3
  /\ firstError[1].code = "SERVER_ERROR"
  /\ rejection[1].name = "AxiosError"
  /\ rejection[1].status = 404
  /\ lastError[1].code = "UNKNOWN_ERROR"

\* C7: a failure without response is a TimeoutError when its code is
\* ECONNABORTED or ETIMEDOUT and a NetworkError otherwise; both are retried
\* like server errors: the request throws them only when the attempts are
\* exhausted, after the delays of the backoff schedule.
C7_TimeoutAndNetwork ==
  \A r \in Requests :
    (~axiosError[r].response /\ axiosError[r].code # undefined) =>
      /\ axiosError[r].code \in {"ECONNABORTED", "ETIMEDOUT"} =>
           /\ lastError[r].name = "TimeoutError"
           /\ lastError[r].code = "TIMEOUT_ERROR"
      /\ axiosError[r].code \notin {"ECONNABORTED", "ETIMEDOUT"} =>
           /\ lastError[r].name = "NetworkError"
           /\ lastError[r].code = "NETWORK_ERROR"
      /\ pc[r] = "thrown" =>
           /\ attempt[r] = maxRetries[r]
           /\ Len(delays[r]) = maxRetries[r]
      /\ pc[r] = "delay" => delays[r][attempt[r] + 1] = ExpectedDelays[attempt[r] + 1]

C7_Witness ==
  /\ pc[1] = "thrown"
  /\ axiosError[1].code = "ETIMEDOUT"
  /\ lastError[1].name = "TimeoutError"
  /\ firstError[1].name = "NetworkError"
  /\ maxRetries[1] = 2
  /\ delays[1] = <<1000, 2000>>

\* C6: the retry limit of a request is the per-call retries option when one
\* is given (0 included), otherwise the retries value last configured at
\* construction or by updateConfig (0 included), and 3 when none was.
C6_RetryLimit ==
  [][\A r \in Requests :
       (pc[r] = "idle" /\ pc'[r] # "idle") =>
         maxRetries'[r] =
           IF optRetries'[r] # UndefinedNum THEN optRetries'[r]
           ELSE IF configured # UndefinedNum THEN configured
           ELSE 3]_vars

(***************************************************************************)
(* Properties of the classification                                        *)
(***************************************************************************)
\* C8: createErrorFromResponse yields an AISpineError for every status:
\* 400 validation, 401 authentication, 403 authorization, 404 not-found,
\* 408 timeout, 429 rate-limit, 500/502/503/504 server, any other status
\* unknown; the status of the error is the status of the response, hence
\* the one that goes with its kind.
C8_StatusMapping ==
  clsPc = "created" =>
    /\ clsErr.name \in AISpineErrorNames
    /\ clsErr.code =
         CASE clsArg.status = 400 -> "VALIDATION_ERROR"
           [] clsArg.status = 401 -> "AUTHENTICATION_ERROR"
           [] clsArg.status = 403 -> "AUTHORIZATION_ERROR"
           [] clsArg.status = 404 -> "NOT_FOUND"
           [] clsArg.status = 408 -> "TIMEOUT_ERROR"
           [] clsArg.status = 429 -> "RATE_LIMIT_ERROR"
           [] clsArg.status \in {500, 502, 503, 504} -> "SERVER_ERROR"
           [] OTHER -> "UNKNOWN_ERROR"
    /\ clsErr.status = clsArg.status
    /\ clsErr.code = "VALIDATION_ERROR" => clsErr.status = 400
    /\ clsErr.code = "AUTHENTICATION_ERROR" => clsErr.status = 401
    /\ clsErr.code = "AUTHORIZATION_ERROR" => clsErr.status = 403
    /\ clsErr.code = "NOT_FOUND" => clsErr.status = 404
    /\ clsErr.code = "TIMEOUT_ERROR" => clsErr.status = 408
    /\ clsErr.code = "RATE_LIMIT_ERROR" => clsErr.status = 429
    /\ clsErr.code = "SERVER_ERROR" => clsErr.status \in {500, 502, 503, 504}

C8_Witness ==
  /\ clsPc = "created"
  /\ clsArg.status = 408
  /\ clsArg.data.timeout = 7000
  /\ clsErr.code = "TIMEOUT_ERROR"
  /\ clsErr.status = 408

\* C9: the error handleError makes from a failed response carries the
\* fields present in the body: message (else error) as its message and
\* details as its details for every status, validation_errors as
\* validationErrors for 400, retry_after as retryAfter for 429 and the
\* timeout value for 408.
C9_BodyFieldsCarried ==
  (clsPc = "handled" /\ clsArg.response) =>
    LET d == clsArg.data
    IN  /\ (d.message # undefined /\ clsArg.status # 408) =>
             clsErr.message = <<d.message>>
        /\ (d.message = undefined /\ d.error # undefined /\ clsArg.status # 408) =>
             clsErr.message = <<d.error>>
        /\ d.details # NoDetails => clsErr.details = d.details
        /\ (d.validation_errors # NoDetails /\ clsArg.status = 400) =>
             clsErr.validationErrors = d.validation_errors
        /\ (d.retry_after # UndefinedNum /\ clsArg.status = 429) =>
             clsErr.retryAfter = d.retry_after
        /\ (d.timeout # UndefinedNum /\ clsArg.status = 408) =>
             clsErr.message = <<"Request timed out after ", ToString(d.timeout), "ms">>

(***************************************************************************)
(* Properties of WebhookSignature                                          *)
(***************************************************************************)
\* C10: verify returns valid: true only if the header's timestamp is an
\* integer within tolerance seconds of now, before or after, and some v1
\* value is the HMAC of "<t>.<payload>" under the secret; a header whose
\* timestamp differs from now by more than the tolerance, on either side,
\* gets valid: false with error "Timestamp outside tolerance window".
C10_AcceptedOnlyInWindow ==
  sigPc = "verified" =>
    LET parsed == ParseHeader(header)
        t == parsed.timestamp
        seconds == parseInt(t.str)
        tolerance == IF sigArgs.tolerance = UndefinedNum THEN 300 ELSE sigArgs.tolerance
        distance == IF sigArgs.now >= seconds.n * 1000
                    THEN sigArgs.now - seconds.n * 1000
                    ELSE seconds.n * 1000 - sigArgs.now
        expected == HmacHex(sigArgs.secret, SignedPayload(t.str, sigArgs.payload))
    IN  /\ sigResult.valid =>
             /\ t.defined
             /\ ~seconds.nan
             /\ distance <= tolerance * 1000
             /\ \E k \in 1..Len(parsed.signatures) :
                  /\ parsed.signatures[k].defined
                  /\ BufferFromHex(parsed.signatures[k].str).bytes = <<expected>>
        /\ (t.defined /\ t.str # <<>> /\ ~seconds.nan /\ distance > tolerance * 1000) =>
             sigResult = [valid |-> FALSE,
                          error |-> <<"Timestamp outside tolerance window">>]

\* what a verified call saw: the tolerance in force, the header's timestamp
\* and its distance from now, the digest verify expects
Tolerance == IF sigArgs.tolerance = UndefinedNum THEN 300 ELSE sigArgs.tolerance
HeaderTimestamp == ParseHeader(header).timestamp
HeaderSeconds == parseInt(HeaderTimestamp.str)
Distance ==
  IF sigArgs.now >= HeaderSeconds.n * 1000
  THEN sigArgs.now - HeaderSeconds.n * 1000
  ELSE HeaderSeconds.n * 1000 - sigArgs.now
InsideWindow ==
  /\ HeaderTimestamp.defined
  /\ HeaderTimestamp.str # <<>>
  /\ ~HeaderSeconds.nan
  /\ Distance <= Tolerance * 1000
Expected == HmacHex(sigArgs.secret, SignedPayload(HeaderTimestamp.str, sigArgs.payload))
Matches(signature) ==
  signature.defined /\ BufferFromHex(signature.str).bytes = <<Expected>>
Generated == genArgs # NoGenerate
TimestampErrors ==
  {<<"Missing timestamp in signature">>, <<"Timestamp outside tolerance window">>}

\* C11: round trip.  A header generated for a secret, a payload and a
\* timestamp t is accepted by verify under the same payload and secret,
\* with valid: true and no error, when now is within the tolerance of t.
C11_RoundTrip ==
  ( /\ sigPc = "verified"
    /\ Generated
    /\ sigArgs.payload = genArgs.payload
    /\ sigArgs.secret = genArgs.secret
    /\ InsideWindow ) =>
      sigResult = [valid |-> TRUE, error |-> NoText]

C11_Witness ==
  /\ sigPc = "verified"
  /\ Generated
  /\ genArgs.timestamp = T1200
  /\ sigArgs.payload = genArgs.payload
  /\ sigArgs.secret = genArgs.secret
  /\ sigArgs.tolerance = UndefinedNum
  /\ InsideWindow
  /\ sigResult = [valid |-> TRUE, error |-> NoText]

\* C12: tampering.  A header generated for payload p and secret s, with a
\* timestamp inside the window, is rejected by verify under another payload
\* or another secret: valid is false, and the error, if there is one, is
\* neither of the two timestamp errors.
C12_TamperRejected ==
  ( /\ sigPc = "verified"
    /\ Generated
    /\ InsideWindow
    /\ (sigArgs.payload # genArgs.payload \/ sigArgs.secret # genArgs.secret) ) =>
      /\ sigResult.valid = FALSE
      /\ sigResult.error \notin TimestampErrors

C12_Witness ==
  /\ sigPc = "verified"
  /\ Generated
  /\ InsideWindow
  /\ sigArgs.payload # genArgs.payload
  /\ sigArgs.secret = genArgs.secret
  /\ sigResult = [valid |-> FALSE, error |-> NoText]

\* C13: several v1 values.  With a timestamp inside the window, verify
\* returns valid: true as soon as one of the header's v1 values is the
\* expected digest, wherever it stands and whatever the other v1 values are.
C13_AnyMatchAccepted ==
  ( /\ sigPc = "verified"
    /\ InsideWindow
    /\ \E k \in 1..Len(ParseHeader(header).signatures) :
         Matches(ParseHeader(header).signatures[k]) ) =>
      sigResult = [valid |-> TRUE, error |-> NoText]

\* C14: a header without a t component gets valid: false with the error
\* "Missing timestamp in signature", whatever the payload, the secret, the
\* tolerance and the v1 values are: the check comes before the tolerance
\* check and before any comparison of digests.
HasTimestampComponent ==
  \E k \in 1..Len(Split(header, ",")) : Split(Split(header, ",")[k], "=")[1] = <<"t">>

C14_MissingTimestamp ==
  (sigPc = "verified" /\ ~HasTimestampComponent) =>
    sigResult = [valid |-> FALSE, error |-> <<"Missing timestamp in signature">>]

C14_Witness ==
  /\ sigPc = "verified"
  /\ header = <<"v1", "=", "a", "b", "c", "1", "2", "3">>
  /\ ~HasTimestampComponent
  /\ sigResult = [valid |-> FALSE, error |-> <<"Missing timestamp in signature">>]

\* C15: verify never throws.  Every call returns a result object, and an
\* exception raised while the v1 values are compared (a value that is
\* missing, or one whose byte length is not the digest's) comes back as
\* valid: false with error "Signature verification failed: <message>".
Raises(signature) ==
  \/ ~signature.defined
  \/ BufferFromHex(signature.str).length # DigestHexLength \div 2

RaisedAt(k) ==
  LET signatures == ParseHeader(header).signatures
  IN  /\ Raises(signatures[k])
      /\ \A j \in 1..(k - 1) : ~Raises(signatures[j]) /\ ~Matches(signatures[j])

RaisedMessage(signature) ==
  IF signature.defined
  THEN "Input buffers must have the same byte length"
  ELSE "The first argument must be of type string. Received undefined"

C15_NeverThrows ==
  sigPc = "verified" =>
    /\ DOMAIN sigResult = {"valid", "error"}
    /\ sigResult.valid \in BOOLEAN
    /\ ( /\ HeaderTimestamp.defined
         /\ HeaderTimestamp.str # <<>>
         /\ ~IsStale(IF HeaderSeconds.nan THEN NaN ELSE Number(HeaderSeconds.n * 1000),
                     sigArgs.now, Tolerance) ) =>
           \A k \in 1..Len(ParseHeader(header).signatures) :
             RaisedAt(k) =>
               sigResult =
                 [valid |-> FALSE,
                  error |-> <<"Signature verification failed: ",
                              RaisedMessage(ParseHeader(header).signatures[k])>>]

C15_Witness ==
  /\ sigPc = "verified"
  /\ header = <<"t", "=", "9", "0", "0", ",", "v1">>
  /\ sigArgs.tolerance = UndefinedNum
  /\ sigResult =
       [valid |-> FALSE,
        error |-> <<"Signature verification failed: ",
                    "The first argument must be of type string. Received undefined">>]

(***************************************************************************)
(* Properties of WebhookEventHandler                                       *)
(***************************************************************************)
\* the registrations emit is to serve: those under event.event and under '*'
Served == {registration \in live : registration[1] \in {event, "*"}}
PhaseOf(eventType) == IF eventType = event THEN "specific" ELSE "wildcard"
Called(promise) == \E i \in 1..Len(calls) : calls[i] = promise
CallsOf(handler) == Cardinality({i \in 1..Len(calls) : calls[i].handler = handler})

\* C16: emit never rejects because of a handler: a handler that throws, or
\* whose promise rejects, is caught and logged, and the other handlers are
\* still called and awaited.
C16_HandlerFailureContained ==
  /\ emitPc # "rejected"
  /\ (emitPc = "resolved" /\ mutations = 0) =>
       \A registration \in Served :
         Called(Promise(PhaseOf(registration[1]), registration[2]))

\* C17: emit calls each handler registered under event.event and each
\* handler registered under '*' exactly once, also when event.event is '*',
\* and calls no handler that is registered under other types only.
C17_ExactlyOnce ==
  (emitPc = "resolved" /\ mutations = 0) =>
    \A handler \in Handlers :
      CallsOf(handler) =
        Cardinality({registration \in Served : registration[2] = handler})

\* C18: all the handlers are started before any of them is awaited: while
\* emit waits, every handler it is to serve has been called, so that a
\* handler that never settles keeps no other handler from being called.
C18_AllStartedBeforeAwait ==
  (emitPc = "specific" /\ mutations = 0) =>
    \A registration \in Served :
      Called(Promise(PhaseOf(registration[1]), registration[2]))

\* C19: the promise of emit resolves only after every handler it called has
\* settled, and once they have all settled it does resolve.
C19_ResolvesWhenSettled ==
  /\ emitPc = "resolved" => pending = {}
  /\ (emitPc \in {"resolved", "rejected"} /\ pending = {}) => emitPc = "resolved"

\* C20: after any sequence of on, off and removeAllHandlers,
\* getRegisteredEvents returns exactly the types that have at least one
\* handler, each once: off drops a type when its last handler goes, and
\* removeAllHandlers leaves no type.
C20_RegisteredEvents ==
  emitPc # "off" =>
    LET events == getRegisteredEvents(handlers)
    IN  /\ {events[i] : i \in 1..Len(events)} =
             {registration[1] : registration \in live}
        /\ \A i, j \in 1..Len(events) : events[i] = events[j] => i = j

C20_Witness ==
  /\ event = "execution.completed"
  /\ calls = <<Promise("specific", "h1")>>
  /\ mutations = 1
  /\ live = {<<"execution.failed", "h2">>}
  /\ getRegisteredEvents(handlers) = <<"execution.failed">>

\* C21: registering a handler again under a type it is registered under
\* has no effect of its own: the Set of a type holds each handler registered
\* and not removed since exactly once, however often it was registered, so
\* that one emit calls it once per group and one off(type, handler) leaves
\* it out of the Set.
NoHandlerTwice ==
  \A i \in 1..Len(handlers) :
    \A j, k \in 1..Len(handlers[i].set) :
      handlers[i].set[j] = handlers[i].set[k] => j = k

Locals(r) ==
  <<pc[r], optRetries[r], maxRetries[r], attempt[r], lastError[r], result[r],
    issued[r]>>

\* C22: logical requests in flight together on one client keep their own
\* attempt counter, retry limit and last error under every interleaving:
\* each issues at most its own maxRetries + 1 attempts, returns the response
\* or throws the error of its own latest attempt, a step of one request
\* changes nothing of another, and the limit of a request in flight stays
\* what it was when the request started, updateConfig({retries}) or not.
C22_RequestsIndependent ==
  [][ \A r \in Requests :
        /\ issued[r] <= maxRetries[r] + 1
        /\ (pc[r] # "idle" /\ optRetries[r] # UndefinedNum) =>
             maxRetries[r] = optRetries[r]
        /\ pc[r] \in {"attempting", "delay"} => maxRetries'[r] = maxRetries[r]
        /\ pc[r] = "returned" => result[r] = SDKResponse(response[r])
        /\ (pc[r] = "thrown" /\ issued[r] > 0) =>
             lastError[r] = handleError(axiosError[r], config)
        /\ Locals(r)' # Locals(r) =>
             \A q \in Requests \ {r} : Locals(q)' = Locals(q) ]_vars

C22_Witness ==
  /\ config.retries = 0
  /\ pc[1] = "delay"
  /\ optRetries[1] = UndefinedNum
  /\ maxRetries[1] = 1
  /\ issued[1] = 1
  /\ pc[2] = "attempting"
  /\ optRetries[2] = UndefinedNum
  /\ maxRetries[2] = 2
  /\ issued[2] = 3

(***************************************************************************)
(* Properties of WebhookRetry                                              *)
(***************************************************************************)
\* C23: getRetryDelay(attempt) is min(baseDelay * 2^(attempt - 1), 30000):
\* 1000, 2000, 4000, 8000 for attempts 1 to 4 with base 1000, and never
\* more than 30000 whatever the attempt and the base delay; the delay of
\* the executor is never more than 10000 whatever the attempt.
C23_DelaysCapped ==
  /\ retryPc = "delay" =>
       LET doubled == IF retryCall.attempt = 0 THEN retry.baseDelay \div 2
                      ELSE retry.baseDelay * 2 ^ (retryCall.attempt - 1)
       IN  /\ retryOut.delay = IF doubled < 30000 THEN doubled ELSE 30000
           /\ retryOut.delay <= 30000
           /\ (retry.baseDelay = 1000 /\ retryCall.attempt \in 1..4) =>
                retryOut.delay = <<1000, 2000, 4000, 8000>>[retryCall.attempt]
  /\ retryPc = "backoff" => retryOut.delay <= 10000

C23_Witness ==
  /\ retryPc = "delay"
  /\ retry.baseDelay = 10000
  /\ retryCall.attempt = MaxAttemptNumber
  /\ retryOut.delay = 30000

\* C24: shouldRetry(status, attempt) is true exactly when attempt is less
\* than maxRetries and the status is 408, 429 or at least 500; it is false
\* for every other status and for every status once attempt has reached
\* maxRetries.
C24_ShouldRetry ==
  retryPc = "decision" =>
    /\ retryOut.retry <=>
         /\ retryCall.attempt < retry.maxRetries
         /\ retryCall.status \in {408, 429} \/ retryCall.status >= 500
    /\ retryCall.attempt >= retry.maxRetries => ~retryOut.retry
    /\ retryCall.status \in {200, 204, 400, 401, 404} => ~retryOut.retry

C24_Witness ==
  /\ retryPc = "decision"
  /\ retry.maxRetries = 3
  /\ retryCall = [attempt |-> 2, status |-> 502]
  /\ retryOut.retry

(***************************************************************************)
(* Properties of the configuration                                         *)
(***************************************************************************)
\* C25: after updateConfig(u) the configuration has the value of u for
\* every field u has and the previous value for every other field, whatever
\* is done to the objects getConfig returned; getConfig returns these
\* values; and the requests sent afterwards go out with the base URL, the
\* timeout and the API key of the configuration.
C25_UpdateTakesEffect ==
  cfgPc = "updated" =>
    LET cfg == heapConfig.this
    IN  /\ cfg.apiKey = IF lastUpdate.apiKey # "undefined" THEN lastUpdate.apiKey
                        ELSE before.apiKey
        /\ cfg.baseURL = IF lastUpdate.baseURL # "undefined" THEN lastUpdate.baseURL
                         ELSE before.baseURL
        /\ cfg.timeout = IF lastUpdate.timeout # -1 THEN lastUpdate.timeout
                         ELSE before.timeout
        /\ requestConfig # NoDefaults =>
             /\ requestConfig.baseURL = cfg.baseURL
             /\ requestConfig.timeout = cfg.timeout
             /\ requestConfig.authorization = <<"Bearer ", cfg.apiKey>>

(***************************************************************************)
(* Properties of waitForExecution                                          *)
(***************************************************************************)
\* C26: waitForExecution returns the first execution polled whose status is
\* completed or failed; timeout, 300000 ms when not given, is the longest it
\* waits: when no such status is seen within it the call throws an
\* AISpineError with code EXECUTION_TIMEOUT and status 408, and at no moment
\* is the call polling, sleeping or ending later than timeout after its start.
C26_WaitBounded ==
  LET timeout == IF waitOpts.timeout = -1 THEN 300000 ELSE waitOpts.timeout
  IN  /\ waitPc = "returned" => polled \in {"completed", "failed"}
      /\ waitPc = "sleeping" => polled \notin {"completed", "failed"}
      /\ (waitPc = "thrown" /\ waitError.code = "EXECUTION_TIMEOUT") =>
           /\ waitError.name = "AISpineError"
           /\ waitError.status = 408
      /\ waitPc \in {"polling", "sleeping", "returned", "thrown"} =>
           elapsed <= timeout

(***************************************************************************)
(* Properties of executeBatch                                              *)
(***************************************************************************)
Started(k) == k \in inFlight \/ settled[k] # NoBatchResponse

Invoked == {calls[i].handler : i \in 1..Len(calls)}

\* C30: the handlers one emit calls are those registered under event.event
\* or under '*' when emit was called: registering or unregistering
\* handlers while the dispatch runs does not change which handlers it calls.
C30_SnapshotAtEmit ==
  emitPc \in {"wildcard", "resolved"} => Invoked = registered

(***************************************************************************)
(* Properties of the middleware                                            *)
(***************************************************************************)
\* what verify says of the request's signature and body
Verification ==
  verify(mwReq.signature.str,
         IF mwReq.body.type = "string" THEN mwReq.body.text ELSE mwReq.body.json,
         mwArgs.secret, mwArgs.tolerance, mwArgs.now)
HeaderPresent == mwReq.signature.defined /\ mwReq.signature.str # <<>>

\* C29: the middleware calls next() only when the signature header is
\* there and verify of it against the body says valid; without the header
\* it answers 400 'Missing webhook signature', after a failed verification
\* 401 with the error of the verification, in both cases without calling
\* next(); for every request it either sends one response or calls next()
\* once, never both and never neither.
C29_MiddlewareGate ==
  mwPc = "done" =>
    /\ mwNext > 0 => HeaderPresent /\ Verification.valid
    /\ ~HeaderPresent =>
         /\ mwReplies = <<[status |-> 400, error |-> <<"Missing webhook signature">>]>>
         /\ mwNext = 0
    /\ (HeaderPresent /\ ~Verification.valid) =>
         /\ Len(mwReplies) = 1
         /\ mwReplies[1].status = 401
         /\ Verification.error # NoText => mwReplies[1].error = Verification.error
         /\ mwNext = 0
    /\ Len(mwReplies) + mwNext = 1

C29_Witness ==
  /\ mwPc = "done"
  /\ HeaderPresent
  /\ mwReq.body.type = "object"
  /\ Verification.valid
  /\ mwReplies = <<>>
  /\ mwNext = 1

=============================================================================
